---- MODULE Spec2Model ----
(***************************************************************************)
(* Model of the workflow runner run_flow.py: input loading, workflow       *)
(* loading, prompt resolution, the generation call, and the execution      *)
(* ledger executions.json with its read-modify-truncate-write append.      *)
(*                                                                         *)
(* A Python str is a sequence of tokens (TLA+ strings); "" is << >>.       *)
(* A JSON value is a record [t, k, v]: t the type tag, v the payload and,  *)
(* for a dict, k its keys in insertion order.                              *)
(* Timestamps and durations (startTime, duration) are left out of the      *)
(* execution record: no step of the runner reads them back.                *)
(***************************************************************************)
EXTENDS Integers, Sequences, FiniteSets, TLC

\* ------------------------------------------------------------------ bounds

\* Invocations of the runner started in one behaviour.
MaxRuns == 2

\* Nodes in the node list of a workflow handed to extract_prompt directly.
MaxNodes == 3

\* ------------------------------------------------------------- JSON values

JNull == [t |-> "null", k |-> << >>, v |-> << >>]
JStr(s) == [t |-> "str", k |-> << >>, v |-> s]
JInt(n) == [t |-> "int", k |-> << >>, v |-> n]
JList(q) == [t |-> "list", k |-> << >>, v |-> q]
JDict(keys, f) == [t |-> "dict", k |-> keys, v |-> f]

IsDict(x) == x.t = "dict"
IsList(x) == x.t = "list"
HasKey(x, key) == IsDict(x) /\ key \in DOMAIN x.v

\* Python truthiness of a JSON value.
Truthy(x) ==
    CASE x.t = "null" -> FALSE
      [] x.t = "str" -> Len(x.v) > 0
      [] x.t = "int" -> x.v # 0
      [] x.t = "list" -> Len(x.v) > 0
      [] x.t = "dict" -> Len(x.k) > 0
      [] OTHER -> TRUE

\* type(x).__name__
TypeName(x) ==
    CASE x.t = "null" -> "NoneType"
      [] x.t = "str" -> "str"
      [] x.t = "int" -> "int"
      [] x.t = "list" -> "list"
      [] x.t = "dict" -> "dict"
      [] OTHER -> "object"

\* --------------------------------------------------------- outcome records

\* The result of a call: a returned value, or a raised exception with its
\* class and its str().
Ok(x) == [ok |-> TRUE, val |-> x, cls |-> "", msg |-> << >>]
Raise(c, m) == [ok |-> FALSE, val |-> JNull, cls |-> c, msg |-> m]

\* ------------------------------------------------------- Python str helpers

Min(S) == CHOOSE x \in S : \A y \in S : x <= y

RECURSIVE Join(_, _)
\* sep.join(parts), parts a sequence of strs.
Join(parts, sep) ==
    IF Len(parts) = 0 THEN << >>
    ELSE IF Len(parts) = 1 THEN parts[1]
    ELSE parts[1] \o sep \o Join(Tail(parts), sep)

RECURSIVE PyStr(_)
RECURSIVE PyRepr(_)
\* str(x) of a value parsed from JSON.
PyStr(x) ==
    CASE x.t = "str" -> x.v
      [] x.t = "int" -> <<ToString(x.v)>>
      [] x.t = "null" -> <<"None">>
      [] x.t = "list" ->
           <<"[">> \o Join([i \in 1..Len(x.v) |-> PyRepr(x.v[i])], <<", ">>) \o <<"]">>
      [] x.t = "dict" ->
           <<"{">> \o Join([i \in 1..Len(x.k) |->
                               <<"'", x.k[i], "'", ": ">> \o PyRepr(x.v[x.k[i]])],
                           <<", ">>) \o <<"}">>
      [] OTHER -> <<"?">>
\* repr(x): a str is quoted.
PyRepr(x) == IF x.t = "str" THEN <<"'">> \o x.v \o <<"'">> ELSE PyStr(x)

\* s.startswith(w) and (w in s), for a one-token word w.
StartsWith(s, w) == Len(s) >= 1 /\ s[1] = w
Contains(s, w) == \E i \in 1..Len(s) : s[i] = w

RECURSIVE ReplaceFirst(_, _, _)
\* s.replace(old, new, 1): the first occurrence only.
ReplaceFirst(s, old, new) ==
    IF Len(s) < Len(old) \/ Len(old) = 0 THEN s
    ELSE IF SubSeq(s, 1, Len(old)) = old
         THEN new \o SubSeq(s, Len(old) + 1, Len(s))
         ELSE <<Head(s)>> \o ReplaceFirst(Tail(s), old, new)

RECURSIVE Replace(_, _, _)
\* s.replace(old, new): every non-overlapping occurrence, left to right.
Replace(s, old, new) ==
    IF Len(s) < Len(old) \/ Len(old) = 0 THEN s
    ELSE IF SubSeq(s, 1, Len(old)) = old
         THEN new \o Replace(SubSeq(s, Len(old) + 1, Len(s)), old, new)
         ELSE <<Head(s)>> \o Replace(Tail(s), old, new)

\* dict.get(key): the value, or None.
Get(x, key) == IF key \in DOMAIN x.v THEN x.v[key] ELSE JNull
EmptyDict == JDict(<< >>, << >>)

RECURSIVE SubstLoop_reversed(_, _, _)
\* SubstLoop with the keys taken in reverse order (for key in reversed(...)).
SubstLoop_reversed(cur, keys, f) ==
    IF Len(keys) = 0 THEN Ok(cur)
    ELSE IF cur.t # "str"
         THEN Raise("AttributeError",
                    <<"'", TypeName(cur), "' object has no attribute 'replace'">>)
         ELSE SubstLoop_reversed(
                  JStr(Replace(cur.v, <<"{", keys[Len(keys)], "}">>,
                               PyStr(f[keys[Len(keys)]]))),
                  SubSeq(keys, 1, Len(keys) - 1), f)

RECURSIVE SubstLoop(_, _, _)
\* run_flow.py 116-118: one replace pass per key, in the payload's order,
\* each on the latest state of the working string.
SubstLoop(cur, keys, f) ==
    IF Len(keys) = 0 THEN Ok(cur)
    ELSE IF cur.t # "str"
         THEN Raise("AttributeError",
                    <<"'", TypeName(cur), "' object has no attribute 'replace'">>)
         ELSE SubstLoop(JStr(Replace(cur.v, <<"{", Head(keys), "}">>,
                                     PyStr(f[Head(keys)]))),
                        Tail(keys), f)

\* run_flow.py 114-119 and 151-156: the placeholder substitution.
Substitute(template, input_data) ==
    IF IsDict(input_data) THEN SubstLoop(template, input_data.k, input_data.v)
    ELSE Ok(template)

\* ------------------------------------------------------------ load_workflow

\* The schema checks with the nested form tried first and the flat form
\* tried whenever the nested one does not apply.
normalize_workflow_fallthrough(flow) ==
    IF /\ IsDict(flow) /\ HasKey(flow, "data") /\ IsDict(flow.v["data"])
       /\ HasKey(flow.v["data"], "nodes") /\ HasKey(flow.v["data"], "edges")
       /\ IsList(flow.v["data"].v["nodes"]) /\ IsList(flow.v["data"].v["edges"])
    THEN Ok(JDict(<<"nodes", "edges">>,
                  [nodes |-> flow.v["data"].v["nodes"],
                   edges |-> flow.v["data"].v["edges"]]))
    ELSE IF IsDict(flow) /\ HasKey(flow, "nodes") /\ HasKey(flow, "edges")
    THEN IF IsList(flow.v["nodes"]) /\ IsList(flow.v["edges"])
         THEN Ok(flow)
         ELSE Raise("ValueError",
                    <<"Workflow has root level nodes/edges but they are not lists. Nodes type: ",
                      TypeName(flow.v["nodes"]), ", Edges type: ",
                      TypeName(flow.v["edges"])>>)
    ELSE Raise("ValueError",
               <<"Workflow must be a dictionary containing 'data.nodes'/'data.edges' or root level 'nodes'/'edges' as lists.">>)

\* run_flow.py 43-84: the schema checks on the parsed workflow file.
normalize_workflow(flow) ==
    IF IsDict(flow) /\ HasKey(flow, "data")
    THEN LET data == flow.v["data"] IN
         IF ~IsDict(data)
         THEN Raise("ValueError",
                    <<"Workflow has 'data' key, but its content is not a dictionary. Type: ",
                      TypeName(data)>>)
         ELSE IF ~(HasKey(data, "nodes") /\ HasKey(data, "edges"))
         THEN Raise("ValueError",
                    <<"Workflow data missing required keys ('nodes' or 'edges') under 'data'. Found keys: ">>
                    \o data.k)
         ELSE IF ~(IsList(data.v["nodes"]) /\ IsList(data.v["edges"]))
         THEN Raise("ValueError",
                    <<"Workflow data has nodes/edges but they are not lists. Nodes type: ",
                      TypeName(data.v["nodes"]), ", Edges type: ",
                      TypeName(data.v["edges"])>>)
         ELSE Ok(JDict(<<"nodes", "edges">>,
                       [nodes |-> data.v["nodes"], edges |-> data.v["edges"]]))
    ELSE IF IsDict(flow) /\ HasKey(flow, "nodes") /\ HasKey(flow, "edges")
    THEN IF IsList(flow.v["nodes"]) /\ IsList(flow.v["edges"])
         THEN Ok(flow)
         ELSE Raise("ValueError",
                    <<"Workflow has root level nodes/edges but they are not lists. Nodes type: ",
                      TypeName(flow.v["nodes"]), ", Edges type: ",
                      TypeName(flow.v["edges"])>>)
    ELSE Raise("ValueError",
               <<"Workflow must be a dictionary containing 'data.nodes'/'data.edges' or root level 'nodes'/'edges' as lists.">>)

\* ----------------------------------------------------------- extract_prompt

\* run_flow.py 111: the Strategy A test on a mapping node. ('input' in
\* node['data'] raises TypeError when data is None or a number.)
InputNodeRaises(node) ==
    /\ Get(node, "type") = JStr(<<"InputNode">>)
    /\ HasKey(node, "data")
    /\ node.v["data"].t \in {"null", "int"}
InputNodeMatches(node) ==
    /\ Get(node, "type") = JStr(<<"InputNode">>)
    /\ HasKey(node, "data")
    /\ LET d == node.v["data"] IN
       CASE d.t = "dict" -> "input" \in DOMAIN d.v
         [] d.t = "list" -> \E i \in 1..Len(d.v) : d.v[i] = JStr(<<"input">>)
         [] d.t = "str" -> Contains(d.v, "input")
         [] OTHER -> FALSE

\* run_flow.py 125-126: node.get(key) or node.get('data', {}).get(key).
NodeFieldRaises(node, key) ==
    \/ ~IsDict(node)
    \/ /\ ~Truthy(Get(node, key))
       /\ HasKey(node, "data")
       /\ ~IsDict(node.v["data"])
NodeField(node, key) ==
    IF Truthy(Get(node, key)) THEN Get(node, key)
    ELSE IF HasKey(node, "data") THEN Get(node.v["data"], key)
    ELSE JNull
ProbeRaises(node) == NodeFieldRaises(node, "id") \/ NodeFieldRaises(node, "type")
ProbeError(node) ==
    Raise("AttributeError",
          <<"'", TypeName(IF IsDict(node) THEN node.v["data"] ELSE node),
            "' object has no attribute 'get'">>)

\* run_flow.py 127 and 137: the id starts with the word, or the type contains it.
NodeMatches(node, word) ==
    LET node_id == NodeField(node, "id")
        node_type == NodeField(node, "type")
    IN \/ Truthy(node_id) /\ StartsWith(PyStr(node_id), word)
       \/ Truthy(node_type) /\ Contains(PyStr(node_type), word)

\* The index at which a scan of run_flow.py 124-130 / 134-139 stops: the first
\* node that raises or matches, 0 when the loop runs to its end.
ScanStop(nodes, word) ==
    LET S == {i \in 1..Len(nodes) :
                 ProbeRaises(nodes[i]) \/ NodeMatches(nodes[i], word)}
    IN IF S = {} THEN 0 ELSE Min(S)

\* run_flow.py 144-148: data.node.template.value, else data.template.value.
HasPath(x, path) ==
    \/ Len(path) = 0
    \/ /\ HasKey(x, path[1])
       /\ \/ Len(path) = 1
          \/ /\ HasKey(x.v[path[1]], path[2])
             /\ \/ Len(path) = 2
                \/ /\ HasKey(x.v[path[1]].v[path[2]], path[3])
                   /\ \/ Len(path) = 3
                      \/ HasKey(x.v[path[1]].v[path[2]].v[path[3]], path[4])

\* The template lookup with the second path tried whenever the first gives
\* nothing: (data.node.template.value) or (data.template.value).
PromptTemplate_or(prompt_node) ==
    LET first == IF HasPath(prompt_node, <<"data", "node", "template", "value">>)
                 THEN prompt_node.v["data"].v["node"].v["template"].v["value"]
                 ELSE JNull
    IN IF Truthy(first) THEN Ok(first)
       ELSE IF HasPath(prompt_node, <<"data", "template", "value">>)
       THEN Ok(prompt_node.v["data"].v["template"].v["value"])
       ELSE Ok(JNull)

\* run_flow.py 140-148: the try on the first path, the fallback in its except.
PromptTemplate(prompt_node) ==
    IF HasPath(prompt_node, <<"data", "node", "template", "value">>)
    THEN Ok(prompt_node.v["data"].v["node"].v["template"].v["value"])
    ELSE LET d == IF HasKey(prompt_node, "data") THEN prompt_node.v["data"]
                  ELSE EmptyDict
         IN IF ~IsDict(d)
            THEN Raise("AttributeError",
                       <<"'", TypeName(d), "' object has no attribute 'get'">>)
            ELSE LET tp == IF HasKey(d, "template") THEN d.v["template"]
                           ELSE EmptyDict
                 IN IF ~IsDict(tp)
                    THEN Raise("AttributeError",
                               <<"'", TypeName(tp), "' object has no attribute 'get'">>)
                    ELSE Ok(Get(tp, "value"))

NoMatchingNode ==
    Raise("ValueError", <<"Input node with expected structure not found in flow nodes.">>)

\* Strategy B with the Prompt scan going on past Prompt nodes that carry no
\* template, to the first one that does.
StrategyB_any_prompt(nodes, input_data) ==
    LET ci == ScanStop(nodes, "ChatInput") IN
    IF ci = 0 THEN NoMatchingNode
    ELSE IF ProbeRaises(nodes[ci]) THEN ProbeError(nodes[ci])
    ELSE IF ~Truthy(NodeField(nodes[ci], "id")) THEN NoMatchingNode
    ELSE LET S == {i \in 1..Len(nodes) :
                      \/ ProbeRaises(nodes[i])
                      \/ /\ NodeMatches(nodes[i], "Prompt")
                         /\ PromptTemplate(nodes[i]).ok
                         /\ Truthy(PromptTemplate(nodes[i]).val)}
             pi == IF S = {} THEN 0 ELSE Min(S)
         IN IF pi = 0 THEN NoMatchingNode
            ELSE IF ProbeRaises(nodes[pi]) THEN ProbeError(nodes[pi])
            ELSE Substitute(PromptTemplate(nodes[pi]).val, input_data)

\* run_flow.py 121-162: Strategy B, then the fallback error.
StrategyB(nodes, input_data) ==
    LET ci == ScanStop(nodes, "ChatInput") IN
    IF ci = 0 THEN NoMatchingNode
    ELSE IF ProbeRaises(nodes[ci]) THEN ProbeError(nodes[ci])
    ELSE IF ~Truthy(NodeField(nodes[ci], "id")) THEN NoMatchingNode
    ELSE LET pi == ScanStop(nodes, "Prompt") IN
         IF pi = 0 THEN NoMatchingNode
         ELSE IF ProbeRaises(nodes[pi]) THEN ProbeError(nodes[pi])
         ELSE LET tpl == PromptTemplate(nodes[pi]) IN
              IF ~tpl.ok THEN tpl
              ELSE IF Truthy(tpl.val) THEN Substitute(tpl.val, input_data)
              ELSE NoMatchingNode

\* extract_prompt with the two strategies tried in the other order.
extract_prompt_pair_first(flow, input_data) ==
    IF ~(IsDict(flow) /\ HasKey(flow, "nodes") /\ IsList(flow.v["nodes"]))
    THEN Raise("ValueError",
               <<"Invalid flow structure passed to extract_prompt: Missing or invalid 'nodes' key.">>)
    ELSE LET nodes == flow.v["nodes"].v
             A == {i \in 1..Len(nodes) :
                      IsDict(nodes[i]) /\
                      (InputNodeRaises(nodes[i]) \/ InputNodeMatches(nodes[i]))}
             B == StrategyB(nodes, input_data)
         IN IF B.ok \/ A = {} THEN B
            ELSE LET node == nodes[Min(A)] IN
                 IF InputNodeRaises(node)
                 THEN Raise("TypeError",
                            <<"argument of type '", TypeName(node.v["data"]),
                              "' is not iterable">>)
                 ELSE IF ~IsDict(node.v["data"])
                 THEN Raise("TypeError",
                            <<TypeName(node.v["data"]), " indices must be integers">>)
                 ELSE Substitute(node.v["data"].v["input"], input_data)

\* extract_prompt with Strategy B bound to the graph: the pair resolves only
\* when an edge leads from the ChatInput node to the Prompt node.
extract_prompt_connected(flow, input_data) ==
    IF ~(IsDict(flow) /\ HasKey(flow, "nodes") /\ IsList(flow.v["nodes"]))
    THEN Raise("ValueError",
               <<"Invalid flow structure passed to extract_prompt: Missing or invalid 'nodes' key.">>)
    ELSE LET nodes == flow.v["nodes"].v
             A == {i \in 1..Len(nodes) :
                      IsDict(nodes[i]) /\
                      (InputNodeRaises(nodes[i]) \/ InputNodeMatches(nodes[i]))}
             B == StrategyB(nodes, input_data)
             edges == IF HasKey(flow, "edges") /\ IsList(flow.v["edges"])
                      THEN flow.v["edges"].v ELSE << >>
         IN IF A = {}
            THEN IF B.ok /\ ~\E i \in 1..Len(edges) :
                                /\ Get(edges[i], "source") =
                                      NodeField(nodes[ScanStop(nodes, "ChatInput")], "id")
                                /\ Get(edges[i], "target") =
                                      NodeField(nodes[ScanStop(nodes, "Prompt")], "id")
                 THEN NoMatchingNode
                 ELSE B
            ELSE LET node == nodes[Min(A)] IN
                 IF InputNodeRaises(node)
                 THEN Raise("TypeError",
                            <<"argument of type '", TypeName(node.v["data"]),
                              "' is not iterable">>)
                 ELSE IF ~IsDict(node.v["data"])
                 THEN Raise("TypeError",
                            <<TypeName(node.v["data"]), " indices must be integers">>)
                 ELSE Substitute(node.v["data"].v["input"], input_data)

\* run_flow.py 96-162.
extract_prompt(flow, input_data) ==
    IF ~(IsDict(flow) /\ HasKey(flow, "nodes") /\ IsList(flow.v["nodes"]))
    THEN Raise("ValueError",
               <<"Invalid flow structure passed to extract_prompt: Missing or invalid 'nodes' key.">>)
    ELSE LET nodes == flow.v["nodes"].v
             A == {i \in 1..Len(nodes) :
                      IsDict(nodes[i]) /\
                      (InputNodeRaises(nodes[i]) \/ InputNodeMatches(nodes[i]))}
         IN IF A = {} THEN StrategyB(nodes, input_data)
            ELSE LET node == nodes[Min(A)] IN
                 IF InputNodeRaises(node)
                 THEN Raise("TypeError",
                            <<"argument of type '", TypeName(node.v["data"]),
                              "' is not iterable">>)
                 ELSE IF ~IsDict(node.v["data"])
                 THEN Raise("TypeError",
                            <<TypeName(node.v["data"]), " indices must be integers">>)
                 ELSE Substitute(node.v["data"].v["input"], input_data)

\* ------------------------------------------------- the files the runner reads

\* Workflow documents, as json.load returns them.
InputNodeOf(tpl) ==
    JDict(<<"id", "type", "data">>,
          [id |-> JStr(<<"n1">>), type |-> JStr(<<"InputNode">>),
           data |-> JDict(<<"input">>, [input |-> JStr(tpl)])])
ChatInputNode ==
    JDict(<<"id", "data">>,
          [id |-> JStr(<<"ChatInput", "-", "1">>),
           data |-> JDict(<<"type">>, [type |-> JStr(<<"ChatInput">>)])])
PromptNodeOf(tpl) ==
    JDict(<<"id", "data">>,
          [id |-> JStr(<<"Prompt", "-", "1">>),
           data |-> JDict(<<"type", "node">>,
                          [type |-> JStr(<<"Prompt">>),
                           node |-> JDict(<<"template">>,
                               [template |-> JDict(<<"value">>,
                                   [value |-> JStr(tpl)])])])])
OtherNode ==
    JDict(<<"id", "type">>, [id |-> JStr(<<"n9">>), type |-> JStr(<<"Other">>)])
FlatFlow(nodes, edges) ==
    JDict(<<"nodes", "edges">>, [nodes |-> JList(nodes), edges |-> JList(edges)])
NestedFlow(nodes, edges) ==
    JDict(<<"name", "data">>,
          [name |-> JStr(<<"chat">>), data |-> FlatFlow(nodes, edges)])

\* json.load / json.loads on the texts of this model: a text is a token
\* sequence; a document is one token, a JSON string literal is a word between
\* double quotes, anything else does not parse.
JSONDocs ==
    [doc \in {"{word:hi}", "{word:yo}", "5", "HELLO_FLOW", "CHAT_FLOW",
              "NOMATCH_FLOW", "NOEDGES_FLOW", "MIXED_FLOW"} |->
        CASE doc = "{word:hi}" -> JDict(<<"word">>, [word |-> JStr(<<"hi">>)])
          [] doc = "{word:yo}" -> JDict(<<"word">>, [word |-> JStr(<<"yo">>)])
          [] doc = "5" -> JInt(5)
          [] doc = "HELLO_FLOW" ->
               FlatFlow(<<InputNodeOf(<<"Say ", "{", "word", "}">>)>>, << >>)
          [] doc = "CHAT_FLOW" ->
               NestedFlow(<<ChatInputNode, PromptNodeOf(<<"Tell ", "{", "word", "}">>)>>,
                          <<JDict(<<"source", "target">>,
                                  [source |-> JStr(<<"ChatInput", "-", "1">>),
                                   target |-> JStr(<<"Prompt", "-", "1">>)])>>)
          [] doc = "NOMATCH_FLOW" -> FlatFlow(<<OtherNode>>, << >>)
          [] doc = "MIXED_FLOW" ->
               FlatFlow(<<JStr(<<"n7">>), ChatInputNode,
                          PromptNodeOf(<<"Tell ", "{", "word", "}">>)>>, << >>)
          [] OTHER -> JDict(<<"nodes">>, [nodes |-> JList(<< >>)])]
json_loads(text) ==
    IF Len(text) = 1 /\ text[1] \in DOMAIN JSONDocs THEN Ok(JSONDocs[text[1]])
    ELSE IF Len(text) = 3 /\ text[1] = "DQ" /\ text[3] = "DQ"
            /\ text[2] \notin {"DQ", "SQ"}
    THEN Ok(JStr(<<text[2]>>))
    ELSE Raise("JSONDecodeError", <<"Expecting value: line 1 column 1 (char 0)">>)

\* The read-only files: path -> text.
Files ==
    (<<"flows", "/", "hello", ".json">> :> <<"HELLO_FLOW">>)
    @@ (<<"flows", "/", "chat", ".json">> :> <<"CHAT_FLOW">>)
    @@ (<<"flows", "/", "nomatch", ".json">> :> <<"NOMATCH_FLOW">>)
    @@ (<<"flows", "/", "noedges", ".json">> :> <<"NOEDGES_FLOW">>)
    @@ (<<"flows", "/", "mixed", ".json">> :> <<"MIXED_FLOW">>)
    @@ (<<"flows", "/", "broken", ".json">> :> <<"{", "nodes">>)
    @@ (<<"in", ".json">> :> <<"{word:yo}">>)
    @@ (<<"bad", ".json">> :> <<"oops">>)
    @@ (<<"in", ".txt">> :> <<"{word:yo}">>)

\* run_flow.py 36-94: open, json.load, the schema checks.
load_workflow(path) ==
    IF path \notin DOMAIN Files
    THEN Raise("FileNotFoundError",
               <<"[Errno 2] No such file or directory: '">> \o path \o <<"'">>)
    ELSE LET parsed == json_loads(Files[path]) IN
         IF ~parsed.ok THEN parsed ELSE normalize_workflow(parsed.val)

\* run_flow.py 229: input_arg.strip('\'"').
IsQuote(tok) == tok \in {"SQ", "DQ"}
RECURSIVE LStrip(_)
LStrip(s) == IF Len(s) > 0 /\ IsQuote(Head(s)) THEN LStrip(Tail(s)) ELSE s
RECURSIVE RStrip(_)
RStrip(s) ==
    IF Len(s) > 0 /\ IsQuote(s[Len(s)]) THEN RStrip(SubSeq(s, 1, Len(s) - 1)) ELSE s
Strip(s) == RStrip(LStrip(s))

\* run_flow.py 241: os.path.exists(...) and ....endswith('.json').
InputIsFile(stripped) ==
    /\ stripped \in DOMAIN Files
    /\ Len(stripped) > 0
    /\ stripped[Len(stripped)] = ".json"

\* run_flow.py 239-258: the input payload, from a .json file that exists or
\* from the argument itself; a failure carries the line printed before exit.
load_input(input_arg) ==
    LET stripped == Strip(input_arg)
        r == IF InputIsFile(stripped) THEN json_loads(Files[stripped])
             ELSE json_loads(stripped)
    IN IF r.ok THEN r
       ELSE Raise(r.cls,
                  (IF InputIsFile(stripped) THEN <<"Failed to load input file: ">>
                   ELSE <<"Failed to parse input JSON: ">>) \o r.msg)

\* run_flow.py 260: os.path.basename(flow_path).replace(".json", "").
Basename(path) ==
    LET S == {i \in 1..Len(path) : path[i] = "/"}
        last == IF S = {} THEN 0 ELSE CHOOSE i \in S : \A j \in S : j <= i
    IN SubSeq(path, last + 1, Len(path))
FlowName(flow_path) == Replace(Basename(flow_path), <<".json">>, << >>)

\* ------------------------------------------------------------- run_ollama

\* What the backend does with the one POST of run_flow.py 177.
Backend ==
    { [kind |-> "transport", status |-> 0, body |-> JNull,
       text |-> <<"Connection refused">>],
      [kind |-> "http", status |-> 200,
       body |-> JDict(<<"response">>, [response |-> JStr(<<"hi there">>)]),
       text |-> <<"{response:hi there}">>],
      [kind |-> "http", status |-> 200, body |-> JDict(<<"done">>, [done |-> JInt(1)]),
       text |-> <<"{done:1}">>],
      [kind |-> "http", status |-> 201,
       body |-> JDict(<<"response">>, [response |-> JStr(<<"created">>)]),
       text |-> <<"{response:created}">>],
      [kind |-> "http", status |-> 500, body |-> JNull, text |-> <<"boom">>] }

\* A response body that is no JSON text. response.json() raises on it: with
\* requests 2.27 and later a requests.exceptions.JSONDecodeError, which is a
\* RequestException; with earlier releases a plain ValueError subclass. cls
\* names which of the two the installed library raises.
NotJSON(cls) == [t |-> "notjson", k |-> << >>, v |-> <<cls>>]
ExpectingValue == "Expecting value: line 1 column 1 (char 0)"

\* run_flow.py 176-192: the classification of the backend's answer.
run_ollama(reply) ==
    IF reply.kind = "transport"
    THEN Raise("Exception", <<"Ollama connection error: ">> \o reply.text)
    ELSE IF reply.status = 200
    THEN IF reply.body.t = "notjson"
         THEN IF reply.body.v = <<"RequestException">>
              THEN Raise("Exception", <<"Ollama connection error: ", ExpectingValue>>)
              ELSE Raise("JSONDecodeError", <<ExpectingValue>>)
         ELSE IF ~IsDict(reply.body)
         THEN Raise("AttributeError",
                    <<"'", TypeName(reply.body), "' object has no attribute 'get'">>)
         ELSE Ok(IF HasKey(reply.body, "response") THEN reply.body.v["response"]
                 ELSE JStr(<< >>))
    ELSE Raise("Exception",
               <<"Ollama request failed: ", ToString(reply.status), " - ">> \o reply.text)

\* ------------------------------------------------------- the ledger's bytes

\* The content of executions.json is a sequence of units: brackets, commas,
\* whole records, a scalar document, a byte that is no JSON, and the zero byte
\* an extending ftruncate leaves. Whitespace is left out.
LB == [k |-> "[", r |-> << >>]
RB == [k |-> "]", r |-> << >>]
CM == [k |-> ",", r |-> << >>]
Scalar == [k |-> "scalar", r |-> << >>]
Junk == [k |-> "junk", r |-> << >>]
NUL == [k |-> "nul", r |-> << >>]
RecTok(e) == [k |-> "rec", r |-> <<e>>]
IsValueTok(tok) == tok.k \in {"rec", "scalar"}

\* json.dump(data, f, indent=2) of a list of values.
json_dump(items) ==
    <<LB>> \o [i \in 1..(IF Len(items) = 0 THEN 0 ELSE 2 * Len(items) - 1) |->
                  IF i % 2 = 1 THEN items[(i + 1) \div 2] ELSE CM] \o <<RB>>

\* json.load(f) of the ledger: [ok, list, items]; ok is FALSE for
\* JSONDecodeError, list is FALSE for a document that is no array.
json_load(c) ==
    IF Len(c) = 1 /\ IsValueTok(c[1])
    THEN [ok |-> TRUE, list |-> FALSE, items |-> <<c[1]>>]
    ELSE IF /\ Len(c) >= 2
            /\ c[1] = LB
            /\ c[Len(c)] = RB
            /\ (Len(c) = 2 \/ Len(c) % 2 = 1)
            /\ \A i \in 2..(Len(c) - 1) :
                  IF i % 2 = 0 THEN IsValueTok(c[i]) ELSE c[i] = CM
    THEN [ok |-> TRUE, list |-> TRUE,
          items |-> [i \in 1..((Len(c) - 1) \div 2) |-> c[2 * i]]]
    ELSE [ok |-> FALSE, list |-> FALSE, items |-> << >>]

\* write(2) of toks at offset pos; ftruncate(2) to length n.
WriteAt(c, pos, toks) ==
    [i \in 1..(IF Len(c) > pos + Len(toks) THEN Len(c) ELSE pos + Len(toks)) |->
        IF i > pos /\ i <= pos + Len(toks) THEN toks[i - pos]
        ELSE IF i <= Len(c) THEN c[i] ELSE NUL]
TruncateAt(c, n) ==
    IF n <= Len(c) THEN SubSeq(c, 1, n)
    ELSE c \o [i \in 1..(n - Len(c)) |-> NUL]

\* The records a ledger content holds, in order (<< >> when it is no array).
LedgerRecords(c) ==
    LET p == json_load(c) IN
    IF p.ok /\ p.list THEN [i \in 1..Len(p.items) |-> p.items[i]] ELSE << >>

\* ------------------------------------------------------------------- state

\* Two runner processes can be alive at once; an exited slot can be reused by
\* the next invocation.
Slots == {1, 2}

VARIABLES
    ledger,     \* executions.json: [exists, content]
    nruns,      \* invocations started so far (the uuid4 of a run is its number)
    pc,         \* per slot: where the process is
    loc,        \* per slot: the locals of main and append_execution_log
    out,        \* per slot: the lines printed to stdout
    code,       \* per slot: the exit code, -1 while the process runs
    hist,       \* per slot: the stages the run has been through, with outcomes
    appended,   \* the entries whose append_execution_log call has returned
    lastw,      \* the run whose write to executions.json was the latest (0: none)
    ledger0,    \* executions.json as the behaviour found it
    call        \* a direct call of one function: [op, args, done, result]

vars == <<ledger, nruns, pc, loc, out, code, hist, appended, lastw, ledger0, call>>

\* No direct call: the functions run inside main only.
NoCall == [op |-> "none", args |-> << >>, done |-> FALSE, result |-> Ok(JNull)]

NoEntry ==
    [id |-> 0, flow |-> << >>, status |-> "", input |-> JNull,
     output |-> JStr(<< >>), error |-> << >>]

FreshLocals(run, argv, led) ==
    [run |-> run, argv |-> argv, flow_path |-> << >>, input_arg |-> << >>,
     input_data |-> JNull, flow_name |-> << >>, execution_id |-> 0,
     log_ok |-> TRUE, flow |-> JNull, prompt |-> JNull, output |-> JNull,
     exc |-> << >>, entry |-> NoEntry, existed |-> FALSE, data |-> << >>,
     wlen |-> 0, ret |-> "", at_launch |-> led, at_call |-> led]

Line(kind, msg) == [k |-> kind, m |-> msg, r |-> << >>]
RecordLine(e) == [k |-> "RECORD", m |-> << >>, r |-> <<e>>]

\* A record written by an earlier run of the runner.
OldEntry ==
    [id |-> 0, flow |-> <<"old">>, status |-> "Success",
     input |-> JDict(<< >>, << >>), output |-> JStr(<<"old output">>),
     error |-> << >>]

\* What executions.json can hold when a behaviour starts: nothing (no file),
\* an empty file, bytes that are no JSON (short and long), an empty array, an
\* array of one record, and JSON documents that are no array.
InitialLedgers ==
    { [exists |-> FALSE, content |-> << >>],
      [exists |-> TRUE, content |-> << >>],
      [exists |-> TRUE, content |-> <<LB, RecTok(OldEntry)>>],
      [exists |-> TRUE, content |-> <<Junk, Junk, Junk, Junk, Junk, Junk>>],
      [exists |-> TRUE, content |-> json_dump(<< >>)],
      [exists |-> TRUE, content |-> json_dump(<<RecTok(OldEntry)>>)],
      [exists |-> TRUE, content |-> <<RecTok(OldEntry)>>],
      [exists |-> TRUE, content |-> <<Scalar>>] }

\* The command lines of the model: sys.argv[1:].
FlowHello == <<"flows", "/", "hello", ".json">>
FlowChat == <<"flows", "/", "chat", ".json">>
FlowNoMatch == <<"flows", "/", "nomatch", ".json">>
FlowNoEdges == <<"flows", "/", "noedges", ".json">>
FlowMixed == <<"flows", "/", "mixed", ".json">>
FlowBroken == <<"flows", "/", "broken", ".json">>
FlowMissing == <<"flows", "/", "nope", ".json">>
InlineHi == <<"SQ", "{word:hi}", "SQ">>
Argvs ==
    { << >>, <<FlowHello>>, <<FlowHello, InlineHi, <<"extra">> >>,
      <<FlowHello, <<"not json">> >>,
      <<FlowHello, <<"DQ", "hi", "DQ">> >>,
      <<FlowHello, <<"bad", ".json">> >>,
      <<FlowHello, <<"in", ".txt">> >>,
      <<FlowMissing, <<"nope", ".json">> >>,
      <<FlowHello, InlineHi>>,
      <<FlowHello, <<"5">> >>,
      <<FlowChat, <<"in", ".json">> >>,
      <<FlowNoMatch, InlineHi>>,
      <<FlowNoEdges, InlineHi>>,
      <<FlowMixed, InlineHi>>,
      <<FlowBroken, InlineHi>>,
      <<FlowMissing, InlineHi>> }

Init ==
    /\ ledger \in InitialLedgers
    /\ nruns = 0
    /\ pc = [s \in Slots |-> "idle"]
    /\ loc = [s \in Slots |-> FreshLocals(0, << >>, ledger)]
    /\ out = [s \in Slots |-> << >>]
    /\ code = [s \in Slots |-> -1]
    /\ hist = [s \in Slots |-> << >>]
    /\ appended = << >>
    /\ lastw = 0
    /\ ledger0 = ledger
    /\ call = NoCall

Running(s) == pc[s] \notin {"idle", "exited"}

\* sys.exit(c), or main returning (c = 0).
Exit(s, c, lines) ==
    /\ pc' = [pc EXCEPT ![s] = "exited"]
    /\ code' = [code EXCEPT ![s] = c]
    /\ out' = [out EXCEPT ![s] = out[s] \o lines]

Goto(s, label) == pc' = [pc EXCEPT ![s] = label]
\* The trace of a run: each stage it went through and how the stage ended.
Stage(name, r) == [stage |-> name, ok |-> r.ok, msg |-> r.msg]
Enter(s, name, r) == hist' = [hist EXCEPT ![s] = Append(hist[s], Stage(name, r))]

\* ------------------------------------------------------------------ main()

\* A new process: run_flow.py 9-23 and 343-344. The shell starts it with the
\* command line argv.
Launch(s, argv) ==
    /\ ~Running(s)
    /\ nruns < MaxRuns
    /\ nruns' = nruns + 1
    /\ pc' = [pc EXCEPT ![s] = "main"]
    /\ loc' = [loc EXCEPT ![s] = FreshLocals(nruns + 1, argv, ledger)]
    /\ out' = [out EXCEPT ![s] = << >>]
    /\ code' = [code EXCEPT ![s] = -1]
    /\ hist' = [hist EXCEPT ![s] = << >>]
    /\ UNCHANGED <<ledger, appended, lastw, ledger0, call>>

\* main_args with the count test written as len(sys.argv) < 3.
main_args_lax(s) ==
    /\ pc[s] = "main"
    /\ IF Len(loc[s].argv) < 2
       THEN /\ Exit(s, 1, <<Line("DEBUG_INFO", << >>),
                            Line("ERROR", <<"Incorrect number of arguments.">>)>>)
            /\ UNCHANGED loc
       ELSE /\ Goto(s, "load_input")
            /\ loc' = [loc EXCEPT ![s].flow_path = loc[s].argv[1],
                                  ![s].input_arg = loc[s].argv[2]]
            /\ out' = [out EXCEPT ![s] = out[s] \o <<Line("DEBUG_INFO", << >>),
                                                     Line("INPUT_DEBUG", << >>)>>]
            /\ UNCHANGED code
    /\ UNCHANGED <<ledger, nruns, hist, appended, lastw, ledger0, call>>

\* run_flow.py 209-237: the argument count.
main_args(s) ==
    /\ pc[s] = "main"
    /\ IF Len(loc[s].argv) # 2
       THEN /\ Exit(s, 1, <<Line("DEBUG_INFO", << >>),
                            Line("ERROR", <<"Incorrect number of arguments.">>)>>)
            /\ UNCHANGED loc
       ELSE /\ Goto(s, "load_input")
            /\ loc' = [loc EXCEPT ![s].flow_path = loc[s].argv[1],
                                  ![s].input_arg = loc[s].argv[2]]
            /\ out' = [out EXCEPT ![s] = out[s] \o <<Line("DEBUG_INFO", << >>),
                                                     Line("INPUT_DEBUG", << >>)>>]
            /\ UNCHANGED code
    /\ UNCHANGED <<ledger, nruns, hist, appended, lastw, ledger0, call>>

\* run_flow.py 239-263: LOAD_INPUT, then the execution id.
main_load_input(s) ==
    /\ pc[s] = "load_input"
    /\ LET r == load_input(loc[s].input_arg) IN
       IF ~r.ok
       THEN /\ Exit(s, 1, <<Line("ERROR", r.msg)>>)
            /\ UNCHANGED loc
       ELSE /\ Goto(s, "log_start")
            /\ loc' = [loc EXCEPT ![s].input_data = r.val,
                                  ![s].flow_name = FlowName(loc[s].flow_path),
                                  ![s].execution_id = loc[s].run]
            /\ UNCHANGED <<out, code>>
    /\ Enter(s, "LOAD_INPUT", load_input(loc[s].input_arg))
    /\ UNCHANGED <<ledger, nruns, appended, lastw, ledger0, call>>

\* An exception raised inside the try of run_flow.py 265-315.
RaiseInner(s, msg) ==
    /\ Goto(s, "except")
    /\ loc' = [loc EXCEPT ![s].exc = msg]

LogError == <<"[Errno 13] Permission denied: '/app/logs/<id>.log'">>

\* run_flow.py 265-270: the first write to the per-execution log file, which
\* the file system accepts or refuses for this run.
main_log_start(s) ==
    /\ pc[s] = "log_start"
    /\ \E writable \in BOOLEAN :
          IF writable
          THEN /\ Goto(s, "load_workflow")
               /\ loc' = [loc EXCEPT ![s].log_ok = TRUE]
               /\ Enter(s, "LOG_START", Ok(JNull))
          ELSE /\ Goto(s, "except")
               /\ loc' = [loc EXCEPT ![s].log_ok = FALSE, ![s].exc = LogError]
               /\ Enter(s, "LOG_START", Raise("PermissionError", LogError))
    /\ UNCHANGED <<ledger, nruns, out, code, appended, lastw, ledger0, call>>

\* run_flow.py 272-280: LOAD_WORKFLOW.
main_load_workflow(s) ==
    /\ pc[s] = "load_workflow"
    /\ LET r == load_workflow(loc[s].flow_path) IN
       IF r.ok
       THEN /\ Goto(s, "resolve")
            /\ loc' = [loc EXCEPT ![s].flow = r.val]
            /\ out' = [out EXCEPT ![s] =
                          Append(out[s], Line("DEBUG", <<"Successfully loaded flow">>))]
       ELSE /\ RaiseInner(s, r.msg)
            /\ UNCHANGED out
    /\ Enter(s, "LOAD_WORKFLOW", load_workflow(loc[s].flow_path))
    /\ UNCHANGED <<ledger, nruns, code, appended, lastw, ledger0, call>>

\* main_resolve with the resolver's exception swallowed: the run goes on to
\* the backend with no prompt.
main_resolve_swallow(s) ==
    /\ pc[s] = "resolve"
    /\ LET r == extract_prompt(loc[s].flow, loc[s].input_data) IN
       /\ Goto(s, "generate")
       /\ loc' = [loc EXCEPT ![s].prompt = r.val]
    /\ Enter(s, "RESOLVE_PROMPT", extract_prompt(loc[s].flow, loc[s].input_data))
    /\ UNCHANGED <<ledger, nruns, out, code, appended, lastw, ledger0, call>>

\* run_flow.py 282-287: RESOLVE_PROMPT.
main_resolve(s) ==
    /\ pc[s] = "resolve"
    /\ LET r == extract_prompt(loc[s].flow, loc[s].input_data) IN
       IF r.ok
       THEN /\ Goto(s, "generate")
            /\ loc' = [loc EXCEPT ![s].prompt = r.val]
       ELSE RaiseInner(s, r.msg)
    /\ Enter(s, "RESOLVE_PROMPT", extract_prompt(loc[s].flow, loc[s].input_data))
    /\ UNCHANGED <<ledger, nruns, out, code, appended, lastw, ledger0, call>>

\* main_generate with one more attempt after a first request that failed.
main_generate_retry(s, replies) ==
    /\ pc[s] = "generate"
    /\ \E reply \in replies :
          LET r == run_ollama(reply) IN
          /\ IF r.ok
             THEN /\ Goto(s, "success")
                  /\ loc' = [loc EXCEPT ![s].output = r.val]
             ELSE IF \E i \in 1..Len(hist[s]) : hist[s][i].stage = "GENERATE"
             THEN RaiseInner(s, r.msg)
             ELSE UNCHANGED <<pc, loc>>
          /\ Enter(s, "GENERATE", r)
    /\ UNCHANGED <<ledger, nruns, out, code, appended, lastw, ledger0, call>>

\* run_flow.py 289-294 with 164-192: GENERATE, one POST to the backend.
main_generate(s, replies) ==
    /\ pc[s] = "generate"
    /\ \E reply \in replies :
          LET r == run_ollama(reply) IN
          /\ IF r.ok
             THEN /\ Goto(s, "success")
                  /\ loc' = [loc EXCEPT ![s].output = r.val]
             ELSE RaiseInner(s, r.msg)
          /\ Enter(s, "GENERATE", r)
    /\ UNCHANGED <<ledger, nruns, out, code, appended, lastw, ledger0, call>>

\* run_flow.py 296-314: the Success record, handed to append_execution_log.
main_success(s) ==
    /\ pc[s] = "success"
    /\ Goto(s, "append_exists")
    /\ loc' = [loc EXCEPT
                  ![s].entry = [id |-> loc[s].execution_id,
                                flow |-> loc[s].flow_name,
                                status |-> "Success",
                                input |-> loc[s].input_data,
                                output |-> loc[s].output,
                                error |-> << >>],
                  ![s].ret = "success"]
    /\ Enter(s, "LOG_SUCCESS", Ok(JNull))
    /\ UNCHANGED <<ledger, nruns, out, code, appended, lastw, ledger0, call>>

\* main_except with the partial result kept in the Error record: output is
\* the prompt the run had resolved, when it had one.
main_except_keeps_prompt(s) ==
    /\ pc[s] = "except"
    /\ IF loc[s].log_ok
       THEN /\ Goto(s, "append_exists")
            /\ loc' = [loc EXCEPT
                          ![s].entry = [id |-> loc[s].execution_id,
                                        flow |-> loc[s].flow_name,
                                        status |-> "Error",
                                        input |-> loc[s].input_data,
                                        output |-> IF loc[s].prompt = JNull
                                                   THEN JStr(<< >>)
                                                   ELSE loc[s].prompt,
                                        error |-> loc[s].exc],
                          ![s].ret = "error"]
            /\ out' = [out EXCEPT ![s] = Append(out[s], Line("ERROR", loc[s].exc))]
       ELSE /\ Goto(s, "outer_except")
            /\ loc' = [loc EXCEPT ![s].exc = LogError]
            /\ UNCHANGED out
    /\ Enter(s, "LOG_ERROR",
             IF loc[s].log_ok THEN Ok(JNull) ELSE Raise("PermissionError", LogError))
    /\ UNCHANGED <<ledger, nruns, code, appended, lastw, ledger0, call>>

\* run_flow.py 316-334: the handler of the inner try. It builds the Error
\* record, writes to the log file (which raises again when the file cannot be
\* written), prints the message and hands the record to append_execution_log.
main_except(s) ==
    /\ pc[s] = "except"
    /\ IF loc[s].log_ok
       THEN /\ Goto(s, "append_exists")
            /\ loc' = [loc EXCEPT
                          ![s].entry = [id |-> loc[s].execution_id,
                                        flow |-> loc[s].flow_name,
                                        status |-> "Error",
                                        input |-> loc[s].input_data,
                                        output |-> JStr(<< >>),
                                        error |-> loc[s].exc],
                          ![s].ret = "error"]
            /\ out' = [out EXCEPT ![s] = Append(out[s], Line("ERROR", loc[s].exc))]
       ELSE /\ Goto(s, "outer_except")
            /\ loc' = [loc EXCEPT ![s].exc = LogError]
            /\ UNCHANGED out
    /\ Enter(s, "LOG_ERROR",
             IF loc[s].log_ok THEN Ok(JNull) ELSE Raise("PermissionError", LogError))
    /\ UNCHANGED <<ledger, nruns, code, appended, lastw, ledger0, call>>

\* run_flow.py 315: print the Success record; main returns.
main_print_success(s) ==
    /\ pc[s] = "print_success"
    /\ Exit(s, 0, <<RecordLine(loc[s].entry)>>)
    /\ UNCHANGED <<ledger, nruns, loc, hist, appended, lastw, ledger0, call>>

\* main_print_error without the sys.exit(1) of line 336: main returns.
main_print_error_noexit(s) ==
    /\ pc[s] = "print_error"
    /\ Exit(s, 0, <<RecordLine(loc[s].entry)>>)
    /\ UNCHANGED <<ledger, nruns, loc, hist, appended, lastw, ledger0, call>>

\* run_flow.py 335-336: print the Error record; sys.exit(1).
main_print_error(s) ==
    /\ pc[s] = "print_error"
    /\ Exit(s, 1, <<RecordLine(loc[s].entry)>>)
    /\ UNCHANGED <<ledger, nruns, loc, hist, appended, lastw, ledger0, call>>

\* run_flow.py 337-341: the outer handler.
main_outer_except(s) ==
    /\ pc[s] = "outer_except"
    /\ Exit(s, 1, <<Line("ERROR", <<"Unexpected error in main: ">> \o loc[s].exc)>>)
    /\ UNCHANGED <<ledger, nruns, loc, hist, appended, lastw, ledger0, call>>

\* ---------------------------------------------------- append_execution_log

\* An exception leaving append_execution_log: into the inner handler when the
\* call is the one of line 314, into the outer handler when it is the one of
\* line 334 (made inside the inner handler).
RaiseFromAppend(s, msg) ==
    /\ Goto(s, IF loc[s].ret = "success" THEN "except" ELSE "outer_except")
    /\ loc' = [loc EXCEPT ![s].exc = msg]

\* run_flow.py 195: os.path.exists(path).
append_exists(s) ==
    /\ pc[s] = "append_exists"
    /\ Goto(s, IF ledger.exists THEN "append_open" ELSE "append_create")
    /\ loc' = [loc EXCEPT ![s].existed = ledger.exists, ![s].at_call = ledger]
    /\ UNCHANGED <<ledger, nruns, out, code, hist, appended, lastw, ledger0, call>>

\* append_create with the file opened without truncation (mode 'a'): what
\* another process wrote since the existence check stays in the file.
append_create_keep(s) ==
    /\ pc[s] = "append_create"
    /\ ledger' = [exists |-> TRUE, content |-> ledger.content]
    /\ Goto(s, "append_init")
    /\ UNCHANGED <<nruns, loc, out, code, hist, appended, lastw, ledger0, call>>

\* run_flow.py 196: open(path, 'w') creates the file or cuts it to nothing.
append_create(s) ==
    /\ pc[s] = "append_create"
    /\ ledger' = [exists |-> TRUE, content |-> << >>]
    /\ Goto(s, "append_init")
    /\ UNCHANGED <<nruns, loc, out, code, hist, appended, lastw, ledger0, call>>

\* run_flow.py 197: json.dump([], f), flushed at offset 0 when the file closes.
append_init(s) ==
    /\ pc[s] = "append_init"
    /\ ledger' = [ledger EXCEPT !.content = WriteAt(ledger.content, 0, json_dump(<< >>))]
    /\ Goto(s, "append_open")
    /\ UNCHANGED <<nruns, loc, out, code, hist, appended, lastw, ledger0, call>>

\* append_open that starts a new list whatever the file holds (data = []).
append_open_fresh(s) ==
    /\ pc[s] = "append_open"
    /\ LET p == json_load(ledger.content) IN
       IF p.ok /\ ~p.list
       THEN /\ RaiseFromAppend(s, <<"object has no attribute 'append'">>)
            /\ Enter(s, "APPEND",
                     Raise("AttributeError", <<"object has no attribute 'append'">>))
       ELSE /\ Goto(s, "append_write")
            /\ loc' = [loc EXCEPT ![s].data = <<RecTok(loc[s].entry)>>]
            /\ UNCHANGED hist
    /\ UNCHANGED <<ledger, nruns, out, code, appended, lastw, ledger0, call>>

\* append_open that recovers from a document that is no array as it does
\* from a file that does not parse: it starts from [].
append_open_recover(s) ==
    /\ pc[s] = "append_open"
    /\ LET p == json_load(ledger.content) IN
       /\ Goto(s, "append_write")
       /\ loc' = [loc EXCEPT ![s].data =
                     Append(IF p.ok /\ p.list THEN p.items ELSE << >>,
                            RecTok(loc[s].entry))]
       /\ UNCHANGED hist
    /\ UNCHANGED <<ledger, nruns, out, code, appended, lastw, ledger0, call>>

\* append_open with the entry put in front of the list (data.insert(0, entry)).
append_open_prepend(s) ==
    /\ pc[s] = "append_open"
    /\ LET p == json_load(ledger.content) IN
       IF p.ok /\ ~p.list
       THEN /\ RaiseFromAppend(s, <<"object has no attribute 'append'">>)
            /\ Enter(s, "APPEND",
                     Raise("AttributeError", <<"object has no attribute 'append'">>))
       ELSE /\ Goto(s, "append_write")
            /\ loc' = [loc EXCEPT ![s].data =
                          <<RecTok(loc[s].entry)>> \o
                              (IF p.ok THEN p.items ELSE << >>)]
            /\ UNCHANGED hist
    /\ UNCHANGED <<ledger, nruns, out, code, appended, lastw, ledger0, call>>

\* run_flow.py 198-203: open 'r+', json.load with the JSONDecodeError
\* fallback, data.append(entry).
append_open(s) ==
    /\ pc[s] = "append_open"
    /\ LET p == json_load(ledger.content) IN
       IF p.ok /\ ~p.list
       THEN /\ RaiseFromAppend(s, <<"object has no attribute 'append'">>)
            /\ Enter(s, "APPEND",
                     Raise("AttributeError", <<"object has no attribute 'append'">>))
       ELSE /\ Goto(s, "append_write")
            /\ loc' = [loc EXCEPT ![s].data =
                          Append(IF p.ok THEN p.items ELSE << >>,
                                 RecTok(loc[s].entry))]
            /\ UNCHANGED hist
    /\ UNCHANGED <<ledger, nruns, out, code, appended, lastw, ledger0, call>>

\* append_write without f.seek(0): the dump lands where json.load left the
\* file position, at the end of the file.
append_write_noseek(s) ==
    /\ pc[s] = "append_write"
    /\ ledger' = [ledger EXCEPT !.content =
                     WriteAt(ledger.content, Len(ledger.content),
                             json_dump(loc[s].data))]
    /\ loc' = [loc EXCEPT ![s].wlen =
                  Len(ledger.content) + Len(json_dump(loc[s].data))]
    /\ lastw' = loc[s].run
    /\ Goto(s, "append_truncate")
    /\ UNCHANGED <<nruns, out, code, hist, appended, ledger0, call>>

\* append_write that dumps the list as it was read, the new entry left out.
append_write_stale(s) ==
    /\ pc[s] = "append_write"
    /\ ledger' = [ledger EXCEPT !.content =
                     WriteAt(ledger.content, 0,
                             json_dump(SubSeq(loc[s].data, 1, Len(loc[s].data) - 1)))]
    /\ loc' = [loc EXCEPT ![s].wlen =
                  Len(json_dump(SubSeq(loc[s].data, 1, Len(loc[s].data) - 1)))]
    /\ lastw' = loc[s].run
    /\ Goto(s, "append_truncate")
    /\ UNCHANGED <<nruns, out, code, hist, appended, ledger0, call>>

\* run_flow.py 204-205: f.seek(0); json.dump(data, f, indent=2).
append_write(s) ==
    /\ pc[s] = "append_write"
    /\ ledger' = [ledger EXCEPT !.content =
                     WriteAt(ledger.content, 0, json_dump(loc[s].data))]
    /\ loc' = [loc EXCEPT ![s].wlen = Len(json_dump(loc[s].data))]
    /\ lastw' = loc[s].run
    /\ Goto(s, "append_truncate")
    /\ UNCHANGED <<nruns, out, code, hist, appended, ledger0, call>>

\* append_truncate without the f.truncate() of line 206.
append_truncate_none(s) ==
    /\ pc[s] = "append_truncate"
    /\ appended' = Append(appended, loc[s].entry)
    /\ Goto(s, IF loc[s].ret = "success" THEN "print_success" ELSE "print_error")
    /\ Enter(s, "APPEND", Ok(JNull))
    /\ UNCHANGED <<ledger, nruns, loc, out, code, lastw, ledger0, call>>

\* run_flow.py 206: f.truncate() at the position the write left; the call
\* returns.
append_truncate(s) ==
    /\ pc[s] = "append_truncate"
    /\ ledger' = [ledger EXCEPT !.content = TruncateAt(ledger.content, loc[s].wlen)]
    /\ appended' = Append(appended, loc[s].entry)
    /\ Goto(s, IF loc[s].ret = "success" THEN "print_success" ELSE "print_error")
    /\ Enter(s, "APPEND", Ok(JNull))
    /\ UNCHANGED <<nruns, loc, out, code, lastw, ledger0, call>>

\* ------------------------------------------------------------ specifications

Step(s, replies) ==
    \/ main_args(s)
    \/ main_load_input(s)
    \/ main_log_start(s)
    \/ main_load_workflow(s)
    \/ main_resolve(s)
    \/ main_generate(s, replies)
    \/ main_success(s)
    \/ main_except(s)
    \/ append_exists(s)
    \/ append_create(s)
    \/ append_init(s)
    \/ append_open(s)
    \/ append_write(s)
    \/ append_truncate(s)
    \/ main_print_success(s)
    \/ main_print_error(s)
    \/ main_outer_except(s)

\* Invocations one after the other, as the runner is meant to be used.
LaunchAlone == \E argv \in Argvs : (\A t \in Slots : ~Running(t)) /\ Launch(1, argv)

Next == LaunchAlone \/ Step(1, Backend)

Spec == Init /\ [][Next]_vars

\* Two invocations that may overlap: nothing serializes the processes, so the
\* steps of their append_execution_log calls interleave freely. The ledger
\* starts absent or as an array, and each run reaches its append.
ConcLedgers ==
    { [exists |-> FALSE, content |-> << >>],
      [exists |-> TRUE, content |-> json_dump(<< >>)],
      [exists |-> TRUE, content |-> json_dump(<<RecTok(OldEntry)>>)] }
ConcArgvs == { <<FlowHello, InlineHi>>, <<FlowNoMatch, InlineHi>> }
ConcBackend ==
    {reply \in Backend : reply.text \in {<<"Connection refused">>, <<"{response:hi there}">>}}

InitConc == Init /\ ledger \in ConcLedgers

LaunchAny == \E s \in Slots : \E argv \in ConcArgvs : Launch(s, argv)

NextConc == LaunchAny \/ \E s \in Slots : Step(s, ConcBackend)

SpecConc == InitConc /\ [][NextConc]_vars

\* -------------------------------------------------------------- direct calls

\* The functions of run_flow.py called one at a time, outside main, on
\* arguments drawn from the sets below: extract_prompt on a node list and a
\* payload, load_workflow on the document json.load returned, run_ollama
\* on one answer of the backend.

\* Template texts.
TplSay == <<"Say ", "{", "word", "}">>
TplOther == <<"Other ", "{", "word", "}">>
TplTell == <<"Tell ", "{", "word", "}">>
TplFlat == <<"Ask ", "{", "word", "}">>
TplHello == <<"Hello ", "{", "name", "}", ", you are ", "{", "age", "}">>
TplTwice == <<"{", "word", "}", " and ", "{", "word", "}">>
TplA == <<"{", "a", "}">>
TplAB == <<"{", "b", "}", "-", "{", "a", "}">>
TplPlain == <<"plain text">>
TplBraces == <<"{", "other", "}", " {", "word", " }">>
Templates ==
    {TplSay, TplHello, TplTwice, TplA, TplAB, TplPlain, TplBraces}

\* Nodes: the Prompt node of older flows (data.template.value), an InputNode
\* without an input field, a ChatInput node known by its type alone, and an
\* element of the node list that is no mapping.
PromptNodeFlat(tpl) ==
    JDict(<<"id", "data">>,
          [id |-> JStr(<<"Prompt", "-", "2">>),
           data |-> JDict(<<"type", "template">>,
                          [type |-> JStr(<<"Prompt">>),
                           template |-> JDict(<<"value">>, [value |-> JStr(tpl)])])])
InputNodeNoInput ==
    JDict(<<"id", "type", "data">>,
          [id |-> JStr(<<"n3">>), type |-> JStr(<<"InputNode">>), data |-> EmptyDict])
ChatInputByType == JDict(<<"type">>, [type |-> JStr(<<"ChatInput">>)])
NotANode == JStr(<<"n7">>)
NodeKinds ==
    { InputNodeOf(TplSay), InputNodeOf(TplOther), InputNodeOf(<< >>),
      InputNodeNoInput, ChatInputNode, ChatInputByType, PromptNodeOf(TplTell),
      PromptNodeFlat(TplFlat), PromptNodeOf(<< >>), OtherNode, NotANode }
NodeLists == UNION {[1..n -> NodeKinds] : n \in 0..MaxNodes}

\* Nodes that probe the two scans of Strategy B: a ChatInput node whose id
\* holds the word after a prefix, one known by the id under data alone, one
\* whose id is written in lower case; Prompt nodes that carry a template at
\* both paths, and one whose data.node.template has no value.
ChatInputInfix == JDict(<<"id">>, [id |-> JStr(<<"my-", "ChatInput", "-1">>)])
ChatInputNested ==
    JDict(<<"data">>, [data |-> JDict(<<"id">>, [id |-> JStr(<<"ChatInput", "-9">>)])])
ChatInputLower == JDict(<<"id">>, [id |-> JStr(<<"chatinput", "-1">>)])
PromptBoth(tpl, flat) ==
    JDict(<<"id", "data">>,
          [id |-> JStr(<<"Prompt", "-", "3">>),
           data |-> JDict(<<"type", "node", "template">>,
                          [type |-> JStr(<<"Prompt">>),
                           node |-> JDict(<<"template">>,
                               [template |-> JDict(<<"value">>, [value |-> tpl])]),
                           template |-> JDict(<<"value">>, [value |-> JStr(flat)])])])
PromptNoValue ==
    JDict(<<"id", "data">>,
          [id |-> JStr(<<"Prompt", "-", "4">>),
           data |-> JDict(<<"node", "template">>,
                          [node |-> JDict(<<"template">>, [template |-> EmptyDict]),
                           template |-> JDict(<<"value">>, [value |-> JStr(TplFlat)])])])
ProbeKinds ==
    { ChatInputNode, ChatInputInfix, ChatInputNested, ChatInputByType, ChatInputLower,
      PromptNodeOf(TplTell), PromptBoth(JStr(TplTell), TplFlat),
      PromptBoth(JStr(<< >>), TplFlat), PromptBoth(JNull, TplFlat), PromptNoValue }
ProbeLists == UNION {[1..n -> ProbeKinds] : n \in 0..MaxNodes}

\* Edge lists: none, an edge from the ChatInput node to the Prompt node, the
\* same edge reversed, an edge between two other nodes.
Edge(source, target) ==
    JDict(<<"source", "target">>, [source |-> JStr(source), target |-> JStr(target)])
EdgeLists ==
    { << >>, <<Edge(<<"ChatInput", "-", "1">>, <<"Prompt", "-", "1">>)>>,
      <<Edge(<<"Prompt", "-", "1">>, <<"ChatInput", "-", "1">>)>>,
      <<Edge(<<"n1">>, <<"n9">>)>> }

\* Input payloads: mappings, and values that are no mapping.
PWord == JDict(<<"word">>, [word |-> JStr(<<"hi">>)])
PAda == JDict(<<"name", "age">>, [name |-> JStr(<<"Ada">>), age |-> JInt(30)])
PNone == JDict(<<"word">>, [word |-> JNull])
PAB == JDict(<<"a", "b">>, [a |-> JStr(<<"{", "b", "}">>), b |-> JStr(<<"X">>)])
PBA == JDict(<<"b", "a">>, [a |-> JStr(<<"{", "b", "}">>), b |-> JStr(<<"X">>)])
Payloads ==
    { PWord, PAda, PNone, PAB, PBA, EmptyDict, JInt(5), JNull, JStr(<<"word">>),
      JList(<<JStr(<<"word">>)>>) }

\* A mapping from its key/value pairs, in order.
MkDict(pairs) ==
    JDict([i \in 1..Len(pairs) |-> pairs[i][1]],
          [key \in {pairs[i][1] : i \in 1..Len(pairs)} |->
              pairs[CHOOSE i \in 1..Len(pairs) : pairs[i][1] = key][2]])
Opt(key, values) == {<< >>} \cup {<< <<key, x>> >> : x \in values}

\* Parsed workflow files: every combination of an extra root key, a data
\* field, and root-level nodes and edges, well-formed or not; and roots that
\* are no mapping.
NodesValues ==
    { JList(<< >>), JList(<<OtherNode>>), JList(<<InputNodeOf(TplSay), OtherNode>>),
      JInt(3), EmptyDict }
EdgesValues ==
    { JList(<< >>),
      JList(<<JDict(<<"source", "target">>,
                    [source |-> JStr(<<"n1">>), target |-> JStr(<<"n9">>)])>>),
      JNull }
DataValues ==
    {JInt(5), JNull, JList(<< >>)} \cup
    { MkDict(x \o n \o e) : x \in Opt("id", {JStr(<<"d1">>)}),
                            n \in Opt("nodes", NodesValues),
                            e \in Opt("edges", EdgesValues) }
WorkflowDocs ==
    {JInt(5), JNull, JList(<< >>), JStr(<<"flow">>)} \cup
    { MkDict(x \o d \o n \o e) : x \in Opt("name", {JStr(<<"chat">>)}),
                                 d \in Opt("data", DataValues),
                                 n \in Opt("nodes", NodesValues),
                                 e \in Opt("edges", EdgesValues) }

\* Backend answers: each status with a JSON object body (with and without
\* the response field), a JSON body that is no object, and a body that is no
\* JSON; and transport failures.
HttpBodies ==
    { [body |-> JDict(<<"response">>, [response |-> JStr(<<"hi there">>)]),
       text |-> <<"{response:hi there}">>],
      [body |-> JDict(<<"response">>, [response |-> JStr(<< >>)]),
       text |-> <<"{response:}">>],
      [body |-> JDict(<<"done">>, [done |-> JInt(1)]), text |-> <<"{done:1}">>],
      [body |-> EmptyDict, text |-> <<"{}">>],
      [body |-> JList(<<JInt(1)>>), text |-> <<"[1]">>],
      [body |-> JNull, text |-> <<"null">>],
      [body |-> NotJSON("RequestException"), text |-> <<"<html>">>],
      [body |-> NotJSON("ValueError"), text |-> <<"<html>">>] }
Replies ==
    Backend \cup
    { [kind |-> "http", status |-> st, body |-> b.body, text |-> b.text] :
          st \in {200, 201, 204, 301, 404, 500, 503}, b \in HttpBodies } \cup
    { [kind |-> "transport", status |-> 0, body |-> JNull, text |-> t] :
          t \in {<<"Connection refused">>, <<"Read timed out">>,
                 <<"Name or service not known">>} }

NewCall(op, args) == [op |-> op, args |-> args, done |-> FALSE, result |-> Ok(JNull)]
\* extract_prompt on every node list with two payloads, and on the one-node
\* and two-node flows of each template with every payload.
ResolveCalls ==
    { NewCall("extract_prompt", [nodes |-> ns, edges |-> << >>, input |-> p]) :
          ns \in NodeLists, p \in {PWord, JInt(5)} }
\* extract_prompt on the probing node lists, and on the shorter node lists
\* with every edge list.
ProbeCalls ==
    { NewCall("extract_prompt", [nodes |-> ns, edges |-> << >>, input |-> PWord]) :
          ns \in ProbeLists }
EdgeCalls ==
    { NewCall("extract_prompt", [nodes |-> ns, edges |-> es, input |-> PWord]) :
          ns \in {x \in NodeLists : Len(x) < MaxNodes}, es \in EdgeLists }
SubstCalls ==
    { NewCall("extract_prompt", [nodes |-> ns, edges |-> << >>, input |-> p]) :
          ns \in UNION { { <<InputNodeOf(t)>>, <<ChatInputNode, PromptNodeOf(t)>>,
                           <<ChatInputNode, PromptNodeFlat(t)>> } : t \in Templates },
          p \in Payloads }
LoadCalls == { NewCall("load_workflow", [doc |-> d]) : d \in WorkflowDocs }
GenerateCalls == { NewCall("run_ollama", [reply |-> r]) : r \in Replies }

InitCalls ==
    /\ ledger = [exists |-> FALSE, content |-> << >>]
    /\ nruns = 0
    /\ pc = [s \in Slots |-> "idle"]
    /\ loc = [s \in Slots |-> FreshLocals(0, << >>, ledger)]
    /\ out = [s \in Slots |-> << >>]
    /\ code = [s \in Slots |-> -1]
    /\ hist = [s \in Slots |-> << >>]
    /\ appended = << >>
    /\ lastw = 0
    /\ ledger0 = ledger
    /\ \/ call \in ResolveCalls
       \/ call \in ProbeCalls
       \/ call \in EdgeCalls
       \/ call \in SubstCalls
       \/ call \in LoadCalls
       \/ call \in GenerateCalls

Return(r) ==
    /\ ~call.done
    /\ call' = [call EXCEPT !.done = TRUE, !.result = r]
    /\ UNCHANGED <<ledger, nruns, pc, loc, out, code, hist, appended, lastw, ledger0>>

\* run_flow.py 96-162 on the canonical model {nodes, edges}.
call_extract_prompt ==
    /\ call.op = "extract_prompt"
    /\ Return(extract_prompt(FlatFlow(call.args.nodes, call.args.edges),
                             call.args.input))

\* run_flow.py 40-84 on the document json.load returned.
call_load_workflow ==
    /\ call.op = "load_workflow"
    /\ Return(normalize_workflow(call.args.doc))

\* run_flow.py 176-192 on the answer to the POST.
call_run_ollama ==
    /\ call.op = "run_ollama"
    /\ Return(run_ollama(call.args.reply))

NextCalls == call_extract_prompt \/ call_load_workflow \/ call_run_ollama

SpecCalls == InitCalls /\ [][NextCalls]_vars

\* ------------------------------------------------------------------- claims

Exited(s) == pc[s] = "exited"
Minted(s) == loc[s].execution_id # 0
\* The positions in `appended` of the entries of the run in slot s.
RunEntries(s) == {i \in 1..Len(appended) : appended[i].id = loc[s].run}
LastLine(s) == out[s][Len(out[s])]
\* No process is inside append_execution_log.
InAppend(s) ==
    pc[s] \in {"append_exists", "append_create", "append_init", "append_open",
               "append_write", "append_truncate"}
Returned(s) == pc[s] \in {"print_success", "print_error"}

\* C1: every invocation that got past LOAD_INPUT has, when the process has
\* exited, exactly one record with its execution id appended to the ledger.
C1_ExactlyOneRecord ==
    \A s \in Slots :
        Exited(s) /\ Minted(s) => Cardinality(RunEntries(s)) = 1

\* C2: when LOAD_WORKFLOW, RESOLVE_PROMPT or GENERATE failed, the exited run
\* has appended an Error record carrying the failure's message, its last
\* stdout line is that record, and the exit code is not zero.
C2_FailurePersisted ==
    \A s \in Slots :
        \A i \in 1..Len(hist[s]) :
            /\ Exited(s)
            /\ hist[s][i].stage \in {"LOAD_WORKFLOW", "RESOLVE_PROMPT", "GENERATE"}
            /\ ~hist[s][i].ok
            => /\ code[s] # 0
               /\ \E j \in RunEntries(s) :
                     /\ appended[j].status = "Error"
                     /\ appended[j].error = hist[s][i].msg
                     /\ LastLine(s) = RecordLine(appended[j])

\* The input arguments of Argvs that do not parse: no JSON, a JSON string
\* whose quotes are stripped, a .json file with bad content, a file that is
\* not named .json, a .json path that does not exist.
UnparseableInputs ==
    { <<"not json">>, <<"DQ", "hi", "DQ">>, <<"bad", ".json">>, <<"in", ".txt">>,
      <<"nope", ".json">> }
BadCommandLine(argv) == Len(argv) # 2 \/ argv[2] \in UnparseableInputs

\* C3: a run whose argument count is not two, or whose input argument does not
\* parse, never touches the ledger, never calls the workflow loader or the
\* backend, appends nothing, and exits with code 1.
C3_BadArgsLeaveLedger ==
    \A s \in Slots :
        pc[s] # "idle" /\ BadCommandLine(loc[s].argv)
        => /\ ledger = loc[s].at_launch
           /\ RunEntries(s) = {}
           /\ \A i \in 1..Len(hist[s]) : hist[s][i].stage = "LOAD_INPUT"
           /\ ~InAppend(s)
           /\ Exited(s) => code[s] = 1
\* A run with a missing workflow file and an unparseable input has exited and
\* there is still no ledger file; another with three arguments has exited too.
C3_Witness ==
    /\ Exited(1)
    /\ loc[1].argv = <<FlowMissing, <<"nope", ".json">> >>
    /\ ~ledger.exists
    /\ nruns = 2

\* C4: the last stdout line of every run is the JSON-serialised record of
\* that run. Read here for the runs that minted an execution id only (a run
\* stopped by a usage or input error has no record to print).
C4_LastLineIsRecord ==
    \A s \in Slots :
        Exited(s) /\ Minted(s) =>
            /\ LastLine(s).k = "RECORD"
            /\ LastLine(s).r[1].id = loc[s].execution_id

\* Whether every step of the run succeeded, read off the command line, the
\* backend's answer and the ledger.
AllSucceeded(s) ==
    LET argv == loc[s].argv IN
    /\ Len(argv) = 2
    /\ load_input(argv[2]).ok
    /\ load_workflow(argv[1]).ok
    /\ extract_prompt(load_workflow(argv[1]).val, load_input(argv[2]).val).ok
    /\ \E i \in 1..Len(hist[s]) : hist[s][i].stage = "GENERATE" /\ hist[s][i].ok
    /\ \E j \in RunEntries(s) : appended[j].status = "Success"

\* C5: the exit code is 0 exactly when input loading, workflow loading, prompt
\* resolution, generation and the append of the Success record all
\* succeeded, and 1 otherwise.
C5_ExitCode ==
    \A s \in Slots :
        Exited(s) => /\ code[s] \in {0, 1}
                     /\ code[s] = 0 <=> AllSucceeded(s)
\* A run that failed and a later run that succeeded: exit code 0 with the
\* Error record of the first run already in the ledger.
C5_Witness ==
    /\ Exited(1)
    /\ code[1] = 0
    /\ Len(appended) = 2
    /\ appended[1].status = "Error"
    /\ appended[2].status = "Success"

\* The stages of a run that meets no failure, in order.
StageOrder ==
    <<"LOAD_INPUT", "LOG_START", "LOAD_WORKFLOW", "RESOLVE_PROMPT", "GENERATE",
      "LOG_SUCCESS", "APPEND">>
StageNames(h) == [i \in 1..Len(h) |-> h[i].stage]

\* C6: the stages run in the fixed order; a stage starts only when every
\* earlier one succeeded, and after the first failure the run only records the
\* Error outcome (the handler, then its append).
C6_StageOrder ==
    \A s \in Slots :
        LET h == hist[s]
            F == {i \in 1..Len(h) : ~h[i].ok}
            n == IF F = {} THEN Len(h) ELSE Min(F)
        IN /\ n <= Len(StageOrder)
           /\ \A i \in 1..n : h[i].stage = StageOrder[i]
           /\ SubSeq(StageNames(h), n + 1, Len(h))
                 \in {<< >>, <<"LOG_ERROR">>, <<"LOG_ERROR", "APPEND">>}
\* A run whose prompt resolution failed: the loader ran, the backend did not,
\* and the Error record was appended.
C6_Witness ==
    /\ Exited(1)
    /\ StageNames(hist[1]) = <<"LOAD_INPUT", "LOG_START", "LOAD_WORKFLOW",
                               "RESOLVE_PROMPT", "LOG_ERROR", "APPEND">>
    /\ ~hist[1][4].ok
    /\ hist[1][6].ok

Quiet == \A s \in Slots : ~InAppend(s)
AppendedRecords == [i \in 1..Len(appended) |-> RecTok(appended[i])]
Corrupt(led) == led.exists /\ ~json_load(led.content).ok

\* C7: starting from a ledger path that does not exist, appends made one
\* after the other leave the file holding the array of exactly the records
\* appended, in call order.
C7_SequentialAppends ==
    ~ledger0.exists /\ Quiet =>
        IF appended = << >> THEN ledger = ledger0
        ELSE /\ ledger.exists
             /\ ledger.content = json_dump(AppendedRecords)
\* Two runs, one after the other, from no ledger file: both records are in
\* the file.
C7_Witness ==
    /\ ~ledger0.exists
    /\ Quiet
    /\ Len(appended) = 2
    /\ LedgerRecords(ledger.content) = AppendedRecords

C9_ValidArrayAfterAppend ==
    \A s \in Slots :
        Returned(s) =>
            LET p == json_load(ledger.content) IN
            /\ p.ok /\ p.list
            /\ \A i \in 1..Len(p.items) : p.items[i].k = "rec"
            /\ p.items = Append(LedgerRecords(loc[s].at_call.content),
                                RecTok(loc[s].entry))
            /\ ledger.content = json_dump(p.items)
\* An append has returned on a ledger that held an array of one record.
C9_Witness ==
    /\ Returned(1)
    /\ loc[1].at_call.content = json_dump(<<RecTok(OldEntry)>>)
    /\ Len(LedgerRecords(ledger.content)) = 2

\* C10: with overlapping appends the last writer wins: once no append is in
\* progress, a ledger that parses ends with the record of the run whose write
\* came last, whatever the other runs wrote.
C10_LastWriterWins ==
    Quiet /\ lastw # 0 /\ json_load(ledger.content).ok =>
        LET recs == LedgerRecords(ledger.content) IN
        /\ recs # << >>
        /\ \E i \in 1..Len(appended) :
              /\ appended[i].id = lastw
              /\ recs[Len(recs)] = RecTok(appended[i])
\* Both runs' appends have returned on a ledger that started as the empty
\* array, and the file holds one record only.
C10_Witness ==
    /\ \A s \in Slots : Exited(s)
    /\ ledger0.content = json_dump(<< >>)
    /\ Len(appended) = 2
    /\ json_load(ledger.content).ok
    /\ Len(LedgerRecords(ledger.content)) = 1
    /\ LedgerRecords(ledger.content)[1] \in {RecTok(appended[1]), RecTok(appended[2])}

\* The record a run with command line argv and execution id run appends when
\* every write to its log file succeeds and the backend answers reply.
ExpectedEntry(run, argv, reply) ==
    LET input == load_input(argv[2]).val
        wf == load_workflow(argv[1])
        pr == IF wf.ok THEN extract_prompt(wf.val, input) ELSE wf
        gen == IF pr.ok THEN run_ollama(reply) ELSE pr
    IN [id |-> run, flow |-> FlowName(argv[1]),
        status |-> IF gen.ok THEN "Success" ELSE "Error",
        input |-> input,
        output |-> IF gen.ok THEN gen.val ELSE JStr(<< >>),
        error |-> gen.msg]
NonArray(led) ==
    led.exists /\ json_load(led.content).ok /\ ~json_load(led.content).list

\* C11: a run whose per-execution log file cannot be written appends the
\* record the same run appends when the file can be written (same status,
\* output and error, for some answer of the backend), on every ledger on
\* which the append itself works.
C11_LogFailureSameRecord ==
    \A s \in Slots :
        Exited(s) /\ Minted(s) /\ ~loc[s].log_ok /\ ~NonArray(loc[s].at_launch) =>
            \E j \in RunEntries(s) : \E reply \in Backend :
                appended[j] = ExpectedEntry(loc[s].run, loc[s].argv, reply)
\* The same comparison for the runs whose log file can be written.
LoggedRunAppendsExpected ==
    \A s \in Slots :
        Exited(s) /\ Minted(s) /\ loc[s].log_ok /\ ~NonArray(loc[s].at_launch) =>
            \E j \in RunEntries(s) : \E reply \in Backend :
                appended[j] = ExpectedEntry(loc[s].run, loc[s].argv, reply)

\* ---- prompt resolution

Resolved == call.op = "extract_prompt" /\ call.done

\* The resolver's vocabulary, as section 4.2 of the design words it. A node is
\* a mapping; an InputNode has the type InputNode and an input field in its
\* data mapping; a node mentions a word in its id or type, top-level or under
\* data; the pair is a ChatInput node and a first Prompt node whose template,
\* at data.node.template.value or else data.template.value, is a non-empty
\* string.
IsInputNode(node) ==
    /\ IsDict(node)
    /\ HasKey(node, "type") /\ node.v["type"] = JStr(<<"InputNode">>)
    /\ HasKey(node, "data") /\ IsDict(node.v["data"])
    /\ HasKey(node.v["data"], "input")
Mentions(node, word) ==
    /\ IsDict(node)
    /\ \E key \in {"id", "type"} :
          \/ HasKey(node, key) /\ node.v[key].t = "str" /\ Contains(node.v[key].v, word)
          \/ /\ HasKey(node, "data") /\ HasKey(node.v["data"], key)
             /\ node.v["data"].v[key].t = "str"
             /\ Contains(node.v["data"].v[key].v, word)
First(nodes, P(_)) ==
    LET S == {i \in 1..Len(nodes) : P(nodes[i])} IN IF S = {} THEN 0 ELSE Min(S)
TemplateOf(node) ==
    IF HasPath(node, <<"data", "node", "template", "value">>)
    THEN node.v["data"].v["node"].v["template"].v["value"]
    ELSE IF HasPath(node, <<"data", "template", "value">>)
    THEN node.v["data"].v["template"].v["value"]
    ELSE JNull
IsText(x) == x.t = "str" /\ Len(x.v) > 0
MentionsChatInput(node) == Mentions(node, "ChatInput")
MentionsPrompt(node) == Mentions(node, "Prompt")
HasPair(nodes) ==
    /\ First(nodes, MentionsChatInput) # 0
    /\ First(nodes, MentionsPrompt) # 0
    /\ IsText(TemplateOf(nodes[First(nodes, MentionsPrompt)]))
AllMappings(nodes) == \A i \in 1..Len(nodes) : IsDict(nodes[i])

\* C12: when the node list holds an InputNode with an input field, resolve
\* returns the substituted template of the first such node in array order,
\* wherever a ChatInput/Prompt pair stands in the list, and never the
\* Prompt node's template.
C12_InputNodeFirst ==
    Resolved /\ First(call.args.nodes, IsInputNode) # 0 =>
        LET node == call.args.nodes[First(call.args.nodes, IsInputNode)] IN
        call.result = Substitute(node.v["data"].v["input"], call.args.input)
\* The pair stands before the InputNode in the list, and the InputNode's
\* template is the one returned.
C12_Witness ==
    /\ Resolved
    /\ call.args.nodes = <<ChatInputNode, PromptNodeOf(TplTell), InputNodeOf(TplOther)>>
    /\ HasPair(call.args.nodes)
    /\ call.args.input = PWord
    /\ call.result = Ok(JStr(<<"Other ", "hi">>))

\* The template section 4.2 makes win: the first InputNode's when it is not
\* empty, else the pair's, else none.
Winner(nodes) ==
    LET a == First(nodes, IsInputNode) IN
    IF a # 0 /\ IsText(nodes[a].v["data"].v["input"])
    THEN nodes[a].v["data"].v["input"]
    ELSE IF HasPair(nodes) THEN TemplateOf(nodes[First(nodes, MentionsPrompt)])
    ELSE JNull

\* C13: resolve returns the template of the first strategy, A then B, that
\* yields a non-empty template, and fails with NoMatchingNode when neither
\* does (stated for node lists of mappings).
C13_FirstNonEmptyWins ==
    Resolved /\ AllMappings(call.args.nodes) =>
        call.result = IF Winner(call.args.nodes) = JNull THEN NoMatchingNode
                      ELSE Substitute(Winner(call.args.nodes), call.args.input)

\* The resolver's half of C14: a list of mappings with neither an InputNode
\* with an input field nor a pair makes resolve fail with NoMatchingNode.
NoMatchFailsResolve ==
    /\ Resolved
    /\ AllMappings(call.args.nodes)
    /\ First(call.args.nodes, IsInputNode) = 0
    /\ ~HasPair(call.args.nodes)
    => call.result = NoMatchingNode

\* C14: a workflow with neither an InputNode with an input field nor a
\* resolvable pair makes resolve fail with NoMatchingNode, and the run then
\* records an Error without contacting the backend.
C14_NoMatchRecorded ==
    \A s \in Slots :
        /\ Exited(s)
        /\ \E i \in 1..Len(hist[s]) : hist[s][i].stage = "RESOLVE_PROMPT"
        /\ First(loc[s].flow.v["nodes"].v, IsInputNode) = 0
        /\ ~HasPair(loc[s].flow.v["nodes"].v)
        => /\ \E i \in 1..Len(hist[s]) :
                 /\ hist[s][i].stage = "RESOLVE_PROMPT"
                 /\ ~hist[s][i].ok
                 /\ hist[s][i].msg = NoMatchingNode.msg
           /\ \A i \in 1..Len(hist[s]) : hist[s][i].stage # "GENERATE"
           /\ \E j \in RunEntries(s) :
                 /\ appended[j].status = "Error"
                 /\ appended[j].error = NoMatchingNode.msg

\* ---- placeholder substitution

\* The template the call resolves: the first InputNode's, else the first
\* Prompt node's.
TemplateUsed(nodes) ==
    IF First(nodes, IsInputNode) # 0
    THEN nodes[First(nodes, IsInputNode)].v["data"].v["input"]
    ELSE TemplateOf(nodes[First(nodes, MentionsPrompt)])

RECURSIVE Filled(_, _)
\* The template read once from left to right, each {key} of the payload
\* written as str(value) and every other unit copied.
Filled(t, payload) ==
    IF Len(t) = 0 THEN << >>
    ELSE IF Len(t) >= 3 /\ t[1] = "{" /\ t[3] = "}" /\ t[2] \in DOMAIN payload.v
         THEN PyStr(payload.v[t[2]]) \o Filled(SubSeq(t, 4, Len(t)), payload)
         ELSE <<t[1]>> \o Filled(Tail(t), payload)
\* No value of the payload brings braces in.
PlainValues(payload) ==
    \A key \in DOMAIN payload.v : ~Contains(PyStr(payload.v[key]), "{")

\* C15: for a mapping payload the resolved string is the template with every
\* {key} replaced by str(value) and all other text unchanged; for a payload
\* that is no mapping it is the template itself; the same for Strategy A and
\* Strategy B. (Payloads whose values carry placeholders are C16's case.)
C15_Substitution ==
    Resolved /\ call.result.ok =>
        LET tpl == TemplateUsed(call.args.nodes)
            payload == call.args.input
        IN /\ ~IsDict(payload) => call.result.val = tpl
           /\ IsDict(payload) /\ PlainValues(payload) =>
                 call.result.val = JStr(Filled(tpl.v, payload))
\* The design's example, through Strategy B.
C15_Witness ==
    /\ Resolved
    /\ call.args.nodes = <<ChatInputNode, PromptNodeOf(TplHello)>>
    /\ call.args.input = PAda
    /\ call.result = Ok(JStr(<<"Hello ", "Ada", ", you are ", "30">>))

Placeholder(key) == <<"{", key, "}">>

\* C16: substitution makes one pass per key, in the payload's order, each on
\* the string the pass before left: {b} brought in by the value of the earlier
\* key a is replaced by b's pass, {a} brought in by the value of the later key
\* b stays.
C16_PassPerKeyInOrder ==
    Resolved /\ call.result.ok /\ IsDict(call.args.input) =>
        LET tpl == TemplateUsed(call.args.nodes)
            payload == call.args.input
        IN /\ Len(payload.k) = 2 =>
                 call.result.val.v =
                     Replace(Replace(tpl.v, Placeholder(payload.k[1]),
                                     PyStr(payload.v[payload.k[1]])),
                             Placeholder(payload.k[2]),
                             PyStr(payload.v[payload.k[2]]))
           /\ tpl.v = TplA /\ payload = PAB => call.result.val.v = <<"X">>
           /\ tpl.v = TplA /\ payload = PBA => call.result.val.v = <<"{", "b", "}">>
           /\ tpl.v = TplAB /\ payload = PAB => call.result.val.v = <<"X", "-", "X">>
           /\ tpl.v = TplAB /\ payload = PBA =>
                 call.result.val.v = <<"X", "-", "{", "b", "}">>
\* The same template and the same pairs, in the two key orders: here a comes
\* first and the {b} its value brought in has been replaced.
C16_Witness ==
    /\ Resolved
    /\ call.args.nodes = <<InputNodeOf(TplA)>>
    /\ call.args.input = PAB
    /\ call.result = Ok(JStr(<<"X">>))
    /\ extract_prompt(FlatFlow(call.args.nodes, << >>), PBA) = Ok(JStr(<<"{", "b", "}">>))

\* ---- the canonical model

Loaded == call.op = "load_workflow" /\ call.done
\* Flat form: nodes and edges at the root, no data field.
IsFlat(doc) ==
    IsDict(doc) /\ ~HasKey(doc, "data") /\ HasKey(doc, "nodes") /\ HasKey(doc, "edges")
Keep(key) == key \notin {"nodes", "edges"}
\* The content of a flat document in nested form: the same root with its
\* nodes and edges moved under data.
NestedForm(doc) ==
    LET keys == SelectSeq(doc.k, Keep) \o <<"data">>
    IN JDict(keys,
             [key \in {keys[i] : i \in 1..Len(keys)} |->
                 IF key = "data"
                 THEN JDict(<<"nodes", "edges">>,
                            [nodes |-> doc.v["nodes"], edges |-> doc.v["edges"]])
                 ELSE doc.v[key]])
\* The nodes and edges the file gives: those under data when the root has a
\* data field, the root's otherwise.
FileField(doc, key) ==
    IF HasKey(doc, "data") THEN doc.v["data"].v[key] ELSE doc.v[key]

\* C17: a flat document and the same content in nested form load alike: both
\* are rejected, or both are accepted with the same fields and values.
C17_FlatNestedSameModel ==
    Loaded /\ IsFlat(call.args.doc) =>
        LET nested == normalize_workflow(NestedForm(call.args.doc))
        IN /\ nested.ok = call.result.ok
           /\ call.result.ok => nested.val.v = call.result.val.v
\* The same for flat documents whose root holds nodes and edges only.
BareFlatNestedSameModel ==
    Loaded /\ IsFlat(call.args.doc) /\ DOMAIN call.args.doc.v = {"nodes", "edges"} =>
        LET nested == normalize_workflow(NestedForm(call.args.doc))
        IN /\ nested.ok = call.result.ok
           /\ call.result.ok => nested.val.v = call.result.val.v

\* C18: an accepted document's model has exactly the fields nodes and edges,
\* both sequences, equal to the file's nodes and edges, whichever form the
\* file has and whatever other keys its root carries.
C18_ExactlyNodesAndEdges ==
    Loaded /\ call.result.ok =>
        /\ DOMAIN call.result.val.v = {"nodes", "edges"}
        /\ \A key \in {"nodes", "edges"} :
              /\ IsList(call.result.val.v[key])
              /\ call.result.val.v[key] = FileField(call.args.doc, key)
\* The part of C18 about the two fields themselves.
LoadKeepsNodesAndEdges ==
    Loaded /\ call.result.ok =>
        \A key \in {"nodes", "edges"} :
            /\ HasKey(call.result.val, key)
            /\ IsList(call.result.val.v[key])
            /\ call.result.val.v[key] = FileField(call.args.doc, key)

\* ---- the backend's answers

Generated == call.op = "run_ollama" /\ call.done
Failed(status, text) ==
    Raise("Exception", <<"Ollama request failed: ", ToString(status), " - ">> \o text)
Unavailable(text) == Raise("Exception", <<"Ollama connection error: ">> \o text)

\* C20: status 200 returns the response field of the body, or the empty
\* string when the body has no such field; every other status, other 2xx
\* included, fails with the status code and the body's text; a transport
\* failure fails with the transport error's text.
C20_Classification ==
    Generated =>
        LET reply == call.args.reply
        IN /\ reply.kind = "http" /\ reply.status = 200 =>
                 call.result = Ok(IF HasKey(reply.body, "response")
                                  THEN reply.body.v["response"] ELSE JStr(<< >>))
           /\ reply.kind = "http" /\ reply.status # 200 =>
                 call.result = Failed(reply.status, reply.text)
           /\ reply.kind = "transport" => call.result = Unavailable(reply.text)
\* The same with the 200 case kept to bodies that are JSON objects.
ObjectBodiesClassified ==
    Generated =>
        LET reply == call.args.reply
        IN /\ reply.kind = "http" /\ reply.status = 200 /\ IsDict(reply.body) =>
                 call.result = Ok(IF HasKey(reply.body, "response")
                                  THEN reply.body.v["response"] ELSE JStr(<< >>))
           /\ reply.kind = "http" /\ reply.status # 200 =>
                 call.result = Failed(reply.status, reply.text)
           /\ reply.kind = "transport" => call.result = Unavailable(reply.text)

\* ---- schema failures

\* nodes and edges are both present in the mapping and both sequences.
HasBothSequences(x) ==
    /\ HasKey(x, "nodes") /\ HasKey(x, "edges")
    /\ IsList(x.v["nodes"]) /\ IsList(x.v["edges"])
\* The listed cases of a parsed file.
SchemaInvalid(doc) ==
    \/ ~IsDict(doc)
    \/ /\ HasKey(doc, "data")
       /\ \/ ~IsDict(doc.v["data"])
          \/ ~HasBothSequences(doc.v["data"])
    \/ /\ IsDict(doc) /\ ~HasKey(doc, "data")
       /\ ~HasBothSequences(doc)

\* C19: load fails with InvalidSchema (a ValueError) exactly when the root is
\* no mapping, or has a data field that is no mapping or lacks nodes or edges
\* or holds a non-sequence one, or has no data field and lacks nodes or edges
\* at the root or holds a non-sequence one; it succeeds otherwise. Root-level
\* nodes and edges are not consulted when the root has a data field.
C19_InvalidSchemaCases ==
    Loaded =>
        IF SchemaInvalid(call.args.doc)
        THEN ~call.result.ok /\ call.result.cls = "ValueError"
        ELSE call.result.ok
\* An invalid data field next to valid root-level nodes and edges: rejected.
C19_Witness ==
    /\ Loaded
    /\ HasKey(call.args.doc, "data")
    /\ IsDict(call.args.doc.v["data"])
    /\ ~HasKey(call.args.doc.v["data"], "edges")
    /\ HasBothSequences(call.args.doc)
    /\ ~call.result.ok
    /\ call.result.cls = "ValueError"

\* ---- the runner and the backend

\* The positions in a run's history of its requests to the backend (each
\* GENERATE stage is one POST).
Requests(s) == {i \in 1..Len(hist[s]) : hist[s][i].stage = "GENERATE"}

\* C21: an invocation sends at most one request to the backend; after a
\* request that failed (error status or transport failure) it sends no other,
\* goes on to record the failure only, and exits with a code that is not zero.
C21_SingleAttempt ==
    \A s \in Slots :
        /\ Cardinality(Requests(s)) <= 1
        /\ \A i \in Requests(s) :
              ~hist[s][i].ok =>
                  /\ pc[s] \notin {"generate", "success", "print_success"}
                  /\ \A j \in (i + 1)..Len(hist[s]) :
                        hist[s][j].stage \in {"LOG_ERROR", "APPEND"}
                  /\ Exited(s) => code[s] = 1
\* A run whose one request was refused has exited with code 1 and its Error
\* record appended.
C21_Witness ==
    /\ Exited(1)
    /\ code[1] = 1
    /\ \E i \in Requests(1) :
          /\ hist[1][i].msg = <<"Ollama connection error: ", "Connection refused">>
          /\ i < Len(hist[1])
    /\ \E j \in RunEntries(1) : appended[j].status = "Error"

\* ---- the shape of the records

\* The texts a 200 answer of the backend can return.
BackendTexts == {run_ollama(reply).val : reply \in {x \in Backend : run_ollama(x).ok}}
\* The payload and the workflow name of a command line.
RecordOf(e, argv) ==
    /\ Len(argv) = 2
    /\ load_input(argv[2]).ok
    /\ e.input = load_input(argv[2]).val
    /\ e.flow = FlowName(argv[1])

\* C22: every appended record is either Success with the backend's text as
\* output and an empty error, or Error with an empty output and a non-empty
\* error message; its input is the parsed payload and its flow the workflow
\* name of the run's command line.
C22_RecordShapes ==
    /\ \A i \in 1..Len(appended) :
          LET e == appended[i] IN
          /\ \/ e.status = "Success" /\ e.error = << >> /\ e.output \in BackendTexts
             \/ e.status = "Error" /\ e.output = JStr(<< >>) /\ e.error # << >>
          /\ \E argv \in Argvs : RecordOf(e, argv)
    /\ \A s \in Slots : \A j \in RunEntries(s) :
          /\ RecordOf(appended[j], loc[s].argv)
          /\ appended[j].status = "Success" =>
                /\ appended[j].output = loc[s].output
                /\ \E i \in Requests(s) : hist[s][i].ok
          /\ appended[j].status = "Error" =>
                \E i \in 1..Len(hist[s]) : ~hist[s][i].ok /\ hist[s][i].msg = appended[j].error
\* The end-to-end example followed by a run the backend refused: a Success
\* record with output "hi there", then an Error record with an empty output.
C22_Witness ==
    /\ Len(appended) = 2
    /\ appended[1] = [id |-> 1, flow |-> <<"hello">>, status |-> "Success",
                      input |-> JDict(<<"word">>, [word |-> JStr(<<"hi">>)]),
                      output |-> JStr(<<"hi there">>), error |-> << >>]
    /\ appended[2].status = "Error"
    /\ appended[2].output = JStr(<< >>)
    /\ appended[2].error = <<"Ollama connection error: ", "Connection refused">>
    /\ appended[2].flow = <<"chat">>

\* ---- Strategy B, step by step

\* No InputNode stands in the list and the first node that mentions Prompt
\* carries a non-empty template: Strategy B returns it when step 1 succeeds.
PromptReady(nodes) ==
    /\ AllMappings(nodes)
    /\ First(nodes, IsInputNode) = 0
    /\ First(nodes, MentionsPrompt) # 0
    /\ IsText(TemplateOf(nodes[First(nodes, MentionsPrompt)]))

\* C23: step 1 of Strategy B succeeds exactly when some node's id or type,
\* top-level or under data, contains ChatInput: with a ready Prompt node in
\* the list, resolve returns exactly when such a node exists, and fails with
\* NoMatchingNode otherwise.
C23_ChatInputStep ==
    Resolved /\ PromptReady(call.args.nodes) =>
        IF First(call.args.nodes, MentionsChatInput) # 0
        THEN call.result.ok
        ELSE call.result = NoMatchingNode
\* The same for ChatInput nodes that carry an id, top-level or under data,
\* which starts with ChatInput.
ChatInputIdAtStart(node) ==
    /\ IsDict(node)
    /\ \/ HasKey(node, "id") /\ StartsWith(PyStr(node.v["id"]), "ChatInput")
       \/ /\ ~HasKey(node, "id") /\ HasKey(node, "data") /\ HasKey(node.v["data"], "id")
          /\ StartsWith(PyStr(node.v["data"].v["id"]), "ChatInput")
ChatInputByIdProceeds ==
    Resolved /\ PromptReady(call.args.nodes)
             /\ (\A i \in 1..Len(call.args.nodes) :
                    MentionsChatInput(call.args.nodes[i]) =>
                        ChatInputIdAtStart(call.args.nodes[i])) =>
        IF First(call.args.nodes, MentionsChatInput) # 0
        THEN call.result.ok
        ELSE call.result = NoMatchingNode

PairSought(nodes) ==
    /\ AllMappings(nodes)
    /\ First(nodes, IsInputNode) = 0
    /\ First(nodes, MentionsChatInput) # 0
    /\ ChatInputIdAtStart(nodes[First(nodes, MentionsChatInput)])
    /\ First(nodes, MentionsPrompt) # 0

\* C25: Strategy B consults the first node that mentions Prompt only: when
\* that node carries no non-empty template, resolve fails with NoMatchingNode,
\* whatever templates later Prompt nodes carry; when it carries one, that
\* template is the one returned.
C25_FirstPromptOnly ==
    Resolved /\ PairSought(call.args.nodes) =>
        LET tpl == TemplateOf(call.args.nodes[First(call.args.nodes, MentionsPrompt)])
        IN call.result = IF IsText(tpl) THEN Substitute(tpl, call.args.input)
                         ELSE NoMatchingNode
\* A Prompt node with an empty template stands before one with a template.
C25_Witness ==
    /\ Resolved
    /\ call.args.nodes = <<ChatInputNode, PromptNodeOf(<< >>), PromptNodeOf(TplTell)>>
    /\ call.result = NoMatchingNode

\* C26: the template of the selected Prompt node is the value at
\* data.node.template.value whenever that path exists, empty or not, and the
\* value at data.template.value only when it does not; an empty value at the
\* first path makes Strategy B fail though the second path holds a template.
C26_TemplatePaths ==
    Resolved /\ PairSought(call.args.nodes) =>
        LET node == call.args.nodes[First(call.args.nodes, MentionsPrompt)]
            tpl == IF HasPath(node, <<"data", "node", "template", "value">>)
                   THEN node.v["data"].v["node"].v["template"].v["value"]
                   ELSE IF HasPath(node, <<"data", "template", "value">>)
                   THEN node.v["data"].v["template"].v["value"]
                   ELSE JNull
        IN /\ IsText(tpl) => call.result = Substitute(tpl, call.args.input)
           /\ ~Truthy(tpl) => call.result = NoMatchingNode
\* The first path holds an empty string and the second a template: no
\* prompt; and with no value at the first path the second one is used.
C26_Witness ==
    /\ Resolved
    /\ call.args.nodes = <<ChatInputNode, PromptBoth(JStr(<< >>), TplFlat)>>
    /\ call.result = NoMatchingNode
    /\ extract_prompt(FlatFlow(<<ChatInputNode, PromptNoValue>>, << >>), PWord)
          = Ok(JStr(<<"Ask ", "hi">>))
    /\ extract_prompt(FlatFlow(<<ChatInputNode, PromptBoth(JStr(TplTell), TplFlat)>>,
                               << >>), PWord)
          = Ok(JStr(<<"Tell ", "hi">>))

\* ---- the ledger file, once more

\* The file held a JSON array when the append of slot s began.
HeldArray(led) == led.exists /\ json_load(led.content).ok /\ json_load(led.content).list

\* C27: an append that returns on a ledger that held a JSON array leaves
\* every record the array held in its place and unchanged, and adds the new
\* record after them.
C27_AppendKeepsRecords ==
    \A s \in Slots :
        Returned(s) /\ HeldArray(loc[s].at_call) =>
            LET old == json_load(loc[s].at_call.content).items
                new == json_load(ledger.content)
            IN /\ new.ok /\ new.list
               /\ Len(new.items) = Len(old) + 1
               /\ \A i \in 1..Len(old) : new.items[i] = old[i]
               /\ new.items[Len(old) + 1] = RecTok(loc[s].entry)
\* The second of two appends on a ledger that held one record: the three
\* records are in the file, the oldest first.
C27_Witness ==
    /\ Returned(1)
    /\ ledger0.content = json_dump(<<RecTok(OldEntry)>>)
    /\ Len(appended) = 2
    /\ LedgerRecords(ledger.content) =
          <<RecTok(OldEntry), RecTok(appended[1]), RecTok(appended[2])>>

\* C28: on a ledger that holds valid JSON which is no array (an object, a
\* scalar) every append raises and leaves the file as it was; a run whose
\* stages all succeeded attempts the append of its Success record, then in the
\* handler the append of its Error record, and ends in the outer handler:
\* exit code 1, no record appended, a last stdout line that is no record.
C28_NonArrayLedger ==
    \A s \in Slots :
        pc[s] # "idle" /\ NonArray(loc[s].at_launch) =>
            /\ ledger = loc[s].at_launch
            /\ RunEntries(s) = {}
            /\ pc[s] \notin {"append_create", "append_init", "append_write",
                             "append_truncate", "print_success", "print_error"}
            /\ \A i \in 1..Len(hist[s]) : hist[s][i].stage = "APPEND" => ~hist[s][i].ok
            /\ Exited(s) /\ Minted(s) =>
                  /\ code[s] = 1
                  /\ LastLine(s).k # "RECORD"
            /\ Exited(s) /\ (\E i \in Requests(s) : hist[s][i].ok) =>
                  SubSeq(StageNames(hist[s]), 6, Len(hist[s]))
                      = <<"LOG_SUCCESS", "APPEND", "LOG_ERROR", "APPEND">>
\* A run on a ledger holding a JSON object: the backend answered, both
\* appends were attempted, and the file still holds the object alone.
C28_Witness ==
    /\ Exited(1)
    /\ loc[1].at_launch.content = <<RecTok(OldEntry)>>
    /\ StageNames(hist[1]) =
          <<"LOAD_INPUT", "LOG_START", "LOAD_WORKFLOW", "RESOLVE_PROMPT", "GENERATE",
            "LOG_SUCCESS", "APPEND", "LOG_ERROR", "APPEND">>
    /\ ~hist[1][7].ok /\ ~hist[1][9].ok
    /\ ledger.content = <<RecTok(OldEntry)>>
    /\ code[1] = 1
    /\ LastLine(1) = Line("ERROR", <<"Unexpected error in main: ",
                                     "object has no attribute 'append'">>)

\* C29: the creation of a missing ledger is not atomic with the existence
\* check: a process that saw the file missing cuts it to nothing when it
\* gets to open(path, 'w'), whatever another process has written to it since.
C29_CreateNotAtomic ==
    [][\A s \in Slots :
          pc[s] = "append_create" /\ pc'[s] = "append_init" =>
              ledger' = [exists |-> TRUE, content |-> << >>]]_vars
\* One process has appended its record and left append_execution_log; the
\* other, which saw the file missing before that, has re-initialised the file
\* to [] and has not yet opened it for its own read-modify-write: the first
\* record is gone.
C29_Witness ==
    \E s, t \in Slots :
        /\ s # t
        /\ ~ledger0.exists
        /\ pc[t] \in {"print_success", "print_error", "exited"}
        /\ \E j \in RunEntries(t) : appended[j].id = loc[t].run
        /\ pc[s] = "append_open"
        /\ ~loc[s].existed
        /\ ledger.content = json_dump(<< >>)

\* ---- node lists with elements that are no mappings

\* The first node the ChatInput scan stops at, and the Prompt scan after it,
\* as the design words the matches.
ChatInputAt(nodes) == First(nodes, MentionsChatInput)
PromptAt(nodes) == First(nodes, MentionsPrompt)
\* An element that is no mapping stands before the ChatInput match, or the
\* ChatInput node is found and such an element stands before the Prompt
\* match.
NonMappingBeforeMatch(nodes) ==
    /\ First(nodes, IsInputNode) = 0
    /\ ChatInputAt(nodes) # 0
    /\ PromptAt(nodes) # 0
    /\ \E i \in 1..Len(nodes) :
          /\ ~IsDict(nodes[i])
          /\ \/ i < ChatInputAt(nodes)
             \/ /\ ChatInputIdAtStart(nodes[ChatInputAt(nodes)])
                /\ i < PromptAt(nodes)
AttributeErrorOf(x) ==
    Raise("AttributeError", <<"'", TypeName(x), "' object has no attribute 'get'">>)

\* The resolver's part of C30: Strategy A passes over elements that are no
\* mappings, Strategy B raises AttributeError on the first one its scans meet,
\* though a ChatInput/Prompt pair stands later in the list.
NonMappingBreaksStrategyB ==
    Resolved =>
        /\ First(call.args.nodes, IsInputNode) # 0 =>
              call.result = Substitute(TemplateUsed(call.args.nodes), call.args.input)
        /\ NonMappingBeforeMatch(call.args.nodes) =>
              call.result = AttributeErrorOf(NotANode)

\* C30: a run whose workflow has no InputNode and holds an element that is
\* no mapping before the ChatInput or Prompt match fails at RESOLVE_PROMPT
\* with an error that is not NoMatchingNode, though a pair stands later in
\* the list, and its Error record with that message is appended.
C30_NonMappingRecorded ==
    \A s \in Slots :
        /\ Exited(s)
        /\ \E i \in 1..Len(hist[s]) : hist[s][i].stage = "RESOLVE_PROMPT"
        /\ NonMappingBeforeMatch(loc[s].flow.v["nodes"].v)
        => /\ \E i \in 1..Len(hist[s]) :
                 /\ hist[s][i].stage = "RESOLVE_PROMPT"
                 /\ ~hist[s][i].ok
                 /\ hist[s][i].msg # NoMatchingNode.msg
                 /\ \E j \in RunEntries(s) :
                       /\ appended[j].status = "Error"
                       /\ appended[j].error = hist[s][i].msg
\* The same for the runs that did not start on a ledger holding a JSON
\* document that is no array.
NonMappingRecordedOnArrays ==
    \A s \in Slots :
        /\ Exited(s)
        /\ \E i \in 1..Len(hist[s]) : hist[s][i].stage = "RESOLVE_PROMPT"
        /\ NonMappingBeforeMatch(loc[s].flow.v["nodes"].v)
        /\ ~NonArray(loc[s].at_launch)
        => /\ \E i \in 1..Len(hist[s]) :
                 /\ hist[s][i].stage = "RESOLVE_PROMPT"
                 /\ hist[s][i].msg = AttributeErrorOf(NotANode).msg
                 /\ \E j \in RunEntries(s) :
                       /\ appended[j].status = "Error"
                       /\ appended[j].error = hist[s][i].msg

====
